---------------------------- MODULE Spec2Model ----------------------------
(***************************************************************************)
(* A model of snesemu: the 65816 execution engine (src/src/cpu.rs,         *)
(* src/src/cpu/ops.rs), its memory management unit (src/src/mmu.rs) and    *)
(* the run loop (src/src/main.rs).                                         *)
(*                                                                         *)
(* Integers keep the width of their Rust type: u8 values are 0..255, u16   *)
(* values 0..65535, u32 values 0..2^32-1.  A `+`, `-`, `+=` or `-=` of the *)
(* source wraps in a build without overflow checks and panics in a build   *)
(* with them; the build is the variable overflow_checks, chosen once.      *)
(* A panic (unimplemented!, an index out of bounds, an arithmetic          *)
(* overflow) ends the process: it is recorded in the variable fault.       *)
(*                                                                         *)
(* Byte vectors are kept sparse.  ram (vec![0; 128000]) is the function    *)
(* from the offsets holding a non-zero byte to that byte.  A cartridge is  *)
(* [len, fill, patch]: len bytes, all equal to fill except at the indices  *)
(* of patch.                                                               *)
(***************************************************************************)
EXTENDS Integers, Sequences, FiniteSets, TLC

VARIABLES
    cpu,              \* the Cpu object (cpu.rs 30-46), a record of its fields
    mmu,              \* the Mmu object (mmu.rs 1-6), a record of its fields
    overflow_checks,  \* the build: TRUE when integer overflow panics
    fault,            \* "none", or the panic that ended the process
    snapshots,        \* main's VecDeque of Cpu clones (main.rs 16)
    mainpc,           \* main's position: "loop", "log", "exited"
    nticks,           \* history: the number of calls of Cpu::tick so far
    trace,            \* history: the machine states before the last ticks
    call,             \* the last call made on the Mmu, with its arguments
    ret,              \* what that call returned
    stores,           \* history: the store_u8 calls made so far, oldest first
    moved,            \* history: the bytes the last tick's block move copied
    ncalls,           \* history: the number of calls made on the Mmu so far
    ea,               \* history: the addresses the last tick's arm passed to the Mmu
    tickat            \* where a tick run iteration by iteration stands in its loop

vars == <<cpu, mmu, overflow_checks, fault, snapshots, mainpc, nticks, trace,
          call, ret, stores, moved, ncalls, ea, tickat>>

(***************************************************************************)
(* Bounds of the model.                                                    *)
(***************************************************************************)
\* the number of ticks of a run of the execution engine
MaxTicks == 2
\* the number of iterations of main's loop
MaxLoops == 4
\* the number of calls made on the Mmu in a run of the Mmu alone
MaxCalls == 2
\* the largest block-move counter tried, besides 0xFFFF
MaxCount == 3

(***************************************************************************)
(* Fixed-width integers and their bits.                                    *)
(***************************************************************************)
U8  == 2 ^ 8
U16 == 2 ^ 16

Bit(v, n) == (v \div (2 ^ n)) % 2

RECURSIVE BitAnd(_, _)
BitAnd(p, q) ==
    IF p = 0 \/ q = 0 THEN 0
    ELSE (IF p % 2 = 1 /\ q % 2 = 1 THEN 1 ELSE 0) + 2 * BitAnd(p \div 2, q \div 2)

RECURSIVE BitOr(_, _)
BitOr(p, q) ==
    IF p = 0 THEN q
    ELSE IF q = 0 THEN p
    ELSE (IF p % 2 = 1 \/ q % 2 = 1 THEN 1 ELSE 0) + 2 * BitOr(p \div 2, q \div 2)

RECURSIVE BitXor(_, _)
BitXor(p, q) ==
    IF p = 0 THEN q
    ELSE IF q = 0 THEN p
    ELSE (IF p % 2 # q % 2 THEN 1 ELSE 0) + 2 * BitXor(p \div 2, q \div 2)

\* `!v` on a u8
Not8(v) == 255 - v

\* `v as u8`, `v as u16`
AsU8(v)  == v % U8
AsU16(v) == v % U16

\* u16::from_le_bytes, u32::from_le_bytes and uN::to_le_bytes
from_le_bytes(bytes) ==
    IF Len(bytes) = 2 THEN bytes[1] + 256 * bytes[2]
    ELSE bytes[1] + 256 * bytes[2] + 65536 * bytes[3] + 16777216 * bytes[4]

\* a variant that gives the high byte first
to_le_bytes_HighFirst(value) == <<(value \div 256) % 256, value % 256>>

to_le_bytes(value) == <<value % 256, (value \div 256) % 256>>

(***************************************************************************)
(* Panics.  A read returns a value >= 0, or the code of the panic.         *)
(***************************************************************************)
Unimplemented == -1
OutOfBounds   == -2
Overflow      == -3

FaultName(code) ==
    CASE code = Unimplemented -> "unimplemented"
      [] code = OutOfBounds   -> "index out of bounds"
      [] code = Overflow      -> "arithmetic overflow"
      [] OTHER                -> "none"

(***************************************************************************)
(* The status flags (bitflags! Flags).                                     *)
(***************************************************************************)
CARRY          == 1
ZERO           == 2
IRQ_DISABLE    == 4
DECIMAL_MODE   == 8
INDEX_REGISTER == 16
\* a variant in which Break is bit 5, the bit of MemorySelect
BREAK_FLAG_InBit5 == 2 ^ 5
BREAK_FLAG     == 16
MEMORY_SELECT  == 32
UNUSED         == 32
OVERFLOW       == 64
NEGATIVE       == 128

\* every bit of a u8 is a declared flag, so truncation keeps the byte
FlagsAll == BitOr(BitOr(BitOr(CARRY, ZERO), BitOr(IRQ_DISABLE, DECIMAL_MODE)),
                  BitOr(BitOr(INDEX_REGISTER, BREAK_FLAG),
                        BitOr(BitOr(MEMORY_SELECT, UNUSED), BitOr(OVERFLOW, NEGATIVE))))

from_bits_truncate(bits) == BitAnd(bits, FlagsAll)

contains(status, flag) == BitAnd(status, flag) = flag
insert(status, flag)   == BitOr(status, flag)
remove(status, flag)   == BitAnd(status, Not8(flag))
toggle(status, flag)   == BitXor(status, flag)
set(status, flag, value) == IF value THEN insert(status, flag) ELSE remove(status, flag)

(***************************************************************************)
(* The memory management unit.                                             *)
(***************************************************************************)
\* ram is vec![0; 128000]: an offset, at most 0xFFFF, is always inside it
EmptyRam == [o \in {} |-> 0]

RamAt(ram, i) == IF i \in DOMAIN ram THEN ram[i] ELSE 0

RamPut(ram, i, value) ==
    LET keep == IF value = 0 THEN DOMAIN ram \ {i} ELSE DOMAIN ram \cup {i}
    IN  [o \in keep |-> IF o = i THEN value ELSE ram[o]]

CartAt(cartridge, i) ==
    IF i \in DOMAIN cartridge.patch THEN cartridge.patch[i] ELSE cartridge.fill

\* a variant in which the scratch registers start at zero
MmuNew_ZeroScratch(cartridge) ==
    [cartridge |-> cartridge, ram |-> EmptyRam, spc |-> <<0, 0, 0, 0>>]

\* Mmu::new
MmuNew(cartridge) ==
    [cartridge |-> cartridge, ram |-> EmptyRam, spc |-> <<170, 187, 0, 0>>]

\* a variant in which a bank of ROM is 0x10000 bytes of the cartridge
read_u8_WholeBanks(m, addr) ==
    LET bank   == AsU8(addr \div 65536)
        offset == addr % 65536
    IN  IF bank <= \h3F
        THEN IF offset <= \h1FFF THEN RamAt(m.ram, offset)
             ELSE IF offset <= \h213F THEN 0
             ELSE IF offset <= \h2143 THEN m.spc[offset - \h2140 + 1]
             ELSE IF offset <= \h7FFF THEN 0
             ELSE LET i == (offset - \h8000) + bank * \h10000
                  IN  IF i < m.cartridge.len THEN CartAt(m.cartridge, i)
                      ELSE OutOfBounds
        ELSE IF bank = \h7E THEN RamAt(m.ram, offset)
        ELSE Unimplemented

\* Mmu::read_u8: the byte, or the code of the panic
read_u8(m, addr) ==
    LET bank   == AsU8(addr \div 65536)
        offset == addr % 65536
    IN  IF bank <= \h3F
        THEN IF offset <= \h1FFF THEN RamAt(m.ram, offset)
             ELSE IF offset <= \h213F THEN 0
             ELSE IF offset <= \h2143 THEN m.spc[offset - \h2140 + 1]
             ELSE IF offset <= \h7FFF THEN 0
             ELSE LET i == (offset - \h8000) + bank * \h8000
                  IN  IF i < m.cartridge.len THEN CartAt(m.cartridge, i)
                      ELSE OutOfBounds
        ELSE IF bank = \h7E THEN RamAt(m.ram, offset)
        ELSE Unimplemented

\* a variant in which bank 0x7E is no mirror of the RAM: its stores are lost
store_u8_NoMirror(m, addr, value) ==
    LET bank   == AsU8(addr \div 65536)
        offset == addr % 65536
    IN  IF bank <= \h3F
        THEN IF offset <= \h1FFF THEN [m EXCEPT !.ram = RamPut(@, offset, value)]
             ELSE IF offset <= \h213F THEN m
             ELSE IF offset <= \h2143
                  THEN [m EXCEPT !.spc = [@ EXCEPT ![offset - \h2140 + 1] = value]]
             ELSE m
        ELSE m

\* a variant in which the ROM window can be written
store_u8_RomWritable(m, addr, value) ==
    LET bank   == AsU8(addr \div 65536)
        offset == addr % 65536
    IN  IF bank <= \h3F
        THEN IF offset <= \h1FFF THEN [m EXCEPT !.ram = RamPut(@, offset, value)]
             ELSE IF offset <= \h213F THEN m
             ELSE IF offset <= \h2143
                  THEN [m EXCEPT !.spc = [@ EXCEPT ![offset - \h2140 + 1] = value]]
             ELSE IF offset <= \h7FFF THEN m
             ELSE [m EXCEPT !.cartridge.fill = value]
        ELSE IF bank = \h7E THEN [m EXCEPT !.ram = RamPut(@, offset, value)]
        ELSE m

\* Mmu::store_u8: the Mmu after the store
store_u8(m, addr, value) ==
    LET bank   == AsU8(addr \div 65536)
        offset == addr % 65536
    IN  IF bank <= \h3F
        THEN IF offset <= \h1FFF THEN [m EXCEPT !.ram = RamPut(@, offset, value)]
             ELSE IF offset <= \h213F THEN m
             ELSE IF offset <= \h2143
                  THEN [m EXCEPT !.spc = [@ EXCEPT ![offset - \h2140 + 1] = value]]
             ELSE m
        ELSE IF bank = \h7E THEN [m EXCEPT !.ram = RamPut(@, offset, value)]
        ELSE m

\* A u32 is held as the i32 of the same bits, the integers of the model
\* checker being 32 bits wide: 0xFFFFFFFF is -1, and its bank is 0xFF.
\* `addr + n` on a u32 overflows when it passes 0xFFFFFFFF
AddU32Overflows(addr, n) == addr < 0 /\ addr + n >= 0

\* Mmu::read_u16
read_u16(m, addr) ==
    LET byte0 == read_u8(m, addr)
        byte1 == read_u8(m, addr + 1)
    IN  IF byte0 < 0 THEN byte0
        ELSE IF overflow_checks /\ AddU32Overflows(addr, 1) THEN Overflow
        ELSE IF byte1 < 0 THEN byte1
        ELSE from_le_bytes(<<byte0, byte1>>)

\* Mmu::read_long
read_long(m, addr) ==
    LET byte0 == read_u8(m, addr)
        byte1 == read_u8(m, addr + 1)
        byte2 == read_u8(m, addr + 2)
    IN  IF byte0 < 0 THEN byte0
        ELSE IF overflow_checks /\ AddU32Overflows(addr, 1) THEN Overflow
        ELSE IF byte1 < 0 THEN byte1
        ELSE IF overflow_checks /\ AddU32Overflows(addr, 2) THEN Overflow
        ELSE IF byte2 < 0 THEN byte2
        ELSE from_le_bytes(<<byte0, byte1, byte2, 0>>)

\* Mmu::store_u16: [mmu, fault], the Mmu after the stores and the panic, if any
store_u16(m, addr, value) ==
    LET bytes == to_le_bytes(value)
        m1    == store_u8(m, addr, bytes[1])
    IN  IF overflow_checks /\ AddU32Overflows(addr, 1)
        THEN [mmu |-> m1, fault |-> FaultName(Overflow)]
        ELSE [mmu |-> store_u8(m1, addr + 1, bytes[2]), fault |-> "none"]

\* Mmu::reset_vector
reset_vector(m) ==
    IF \h7FFD < m.cartridge.len
    THEN from_le_bytes(<<CartAt(m.cartridge, \h7FFC), CartAt(m.cartridge, \h7FFD)>>)
    ELSE OutOfBounds


(***************************************************************************)
(* The primitives of cpu/ops.rs.  A register is named by its field.        *)
(***************************************************************************)
\* a variant in which an 8-bit load leaves the Zero flag alone
load_u8_KeepsZero(r, target, value) ==
    [r EXCEPT ![target] = value, !.status = set(@, NEGATIVE, Bit(value, 7) = 1)]

load_u8(r, target, value) ==
    [r EXCEPT ![target] = value,
              !.status = set(set(@, NEGATIVE, Bit(value, 7) = 1), ZERO, value = 0)]

load_u16(r, target, value) ==
    [r EXCEPT ![target] = value,
              !.status = set(set(@, NEGATIVE, Bit(value, 15) = 1), ZERO, value = 0)]

\* a variant in which Carry is set for lhs > rhs only
compare_u8_StrictCarry(status, lhs, rhs) ==
    LET result == (lhs - rhs) % U8
    IN  set(set(set(status, NEGATIVE, Bit(result, 7) = 1), ZERO, result = 0),
            CARRY, lhs > rhs)

compare_u8(status, lhs, rhs) ==
    LET result == (lhs - rhs) % U8
    IN  set(set(set(status, NEGATIVE, Bit(result, 7) = 1), ZERO, result = 0),
            CARRY, lhs >= rhs)

compare_u16(status, lhs, rhs) ==
    LET result == (lhs - rhs) % U16
    IN  set(set(set(status, NEGATIVE, Bit(result, 15) = 1), ZERO, result = 0),
            CARRY, lhs >= rhs)

\* a variant in which the displacement is added as an unsigned byte
branch_Unsigned(pc, offset, should_branch) ==
    IF should_branch THEN (pc + offset) % U16 ELSE pc

branch(pc, offset, should_branch) ==
    IF should_branch
    THEN LET sign_bit == offset \div 128
         IN  IF sign_bit = 1
             THEN (pc - AsU16(Not8(offset) + 1)) % U16
             ELSE (pc + offset) % U16
    ELSE pc

\* a variant in which the carry is not added in
adc_u8_NoCarryIn(r, target, value) ==
    LET result == (AsU8(r[target]) + value) % U8
    IN  [r EXCEPT ![target] = result,
                  !.status = set(set(set(@, NEGATIVE, Bit(result, 7) = 1),
                                     ZERO, result = 0),
                                 CARRY, result < AsU8(r[target]))]

adc_u8(r, target, value) ==
    LET carry  == IF contains(r.status, CARRY) THEN 1 ELSE 0
        result == (AsU8(r[target]) + value + carry) % U8
    IN  [r EXCEPT ![target] = result,
                  !.status = set(set(set(@, NEGATIVE, Bit(result, 7) = 1),
                                     ZERO, result = 0),
                                 CARRY, result < AsU8(r[target]))]

adc_u16(r, target, value) ==
    LET carry  == IF contains(r.status, CARRY) THEN 1 ELSE 0
        result == (r[target] + value + carry) % U16
    IN  [r EXCEPT ![target] = result,
                  !.status = set(set(set(@, NEGATIVE, Bit(result, 7) = 1),
                                     ZERO, result = 0),
                                 CARRY, result < r[target])]

(***************************************************************************)
(* Instructions (inst.rs).  An Instruction is [op, width, arg, arg2]:      *)
(* op the variant, width 8 or 16 for an Immediate (U8 or U16) and 0        *)
(* otherwise, arg and arg2 the operands in the order of the variant.       *)
(***************************************************************************)
Inst(op, width, arg, arg2) == [op |-> op, width |-> width, arg |-> arg, arg2 |-> arg2]

InstUnknown == Inst("Unknown", 0, 0, 0)

(***************************************************************************)
(* The execution engine.  Its methods act on a context                     *)
(* [cpu, mmu, fault, val]: the two objects, the panic raised so far and    *)
(* the value the method returns.  After a panic nothing more executes.     *)
(***************************************************************************)
Ctx(r, m) ==
    [cpu |-> r, mmu |-> m, fault |-> "none", val |-> 0, moved |-> 0, ea |-> <<>>]

Panic(c, code) == [c EXCEPT !.fault = FaultName(code)]

bank_addr(bank, addr) == bank * 65536 + addr

\* Cpu::new
CpuNew ==
    [a |-> 0, x |-> 0, y |-> 0, pc |-> 0, sp |-> \h1FF, direct_page |-> 0,
     program_bank |-> 0, data_bank |-> 0, status |-> 0, emulation |-> TRUE,
     sp_base |-> \h1FF, last_instruction |-> InstUnknown]

current_addr(r) == bank_addr(r.program_bank, r.pc)

set_current_addr(r, addr) ==
    [r EXCEPT !.program_bank = AsU8(addr \div 65536), !.pc = addr % 65536]

\* `v += n` on a u16: the sum, or Overflow in a build that checks
AddU16(v, n) ==
    IF v + n < U16 THEN v + n
    ELSE IF overflow_checks THEN Overflow ELSE (v + n) % U16

\* `v -= n` on a u16
SubU16(v, n) ==
    IF v >= n THEN v - n
    ELSE IF overflow_checks THEN Overflow ELSE (v - n) % U16

\* `v as u32 - n` for a u16 v underflows below 0
SubU32Overflows(v, n) == v - n < 0

\* a variant in which a PC that passes 0xFFFF carries into the program bank
Fetched_CarriesIntoBank(c, read, n) ==
    LET pc == AddU16(c.cpu.pc, n)
    IN  IF c.fault # "none" THEN c
        ELSE IF read < 0 THEN Panic(c, read)
        ELSE IF pc < 0 THEN Panic(c, pc)
        ELSE [c EXCEPT !.cpu.pc = pc, !.val = read,
                       !.cpu.program_bank = AsU8(@ + (c.cpu.pc + n) \div U16)]

Fetched(c, read, n) ==
    LET pc == AddU16(c.cpu.pc, n)
    IN  IF c.fault # "none" THEN c
        ELSE IF read < 0 THEN Panic(c, read)
        ELSE IF pc < 0 THEN Panic(c, pc)
        ELSE [c EXCEPT !.cpu.pc = pc, !.val = read]

fetch_u8(c)   == Fetched(c, read_u8(c.mmu, current_addr(c.cpu)), 1)
fetch_u16(c)  == Fetched(c, read_u16(c.mmu, current_addr(c.cpu)), 2)
fetch_long(c) == Fetched(c, read_long(c.mmu, current_addr(c.cpu)), 3)

push_u8(c, value) ==
    LET m  == store_u8(c.mmu, c.cpu.sp, value)
        sp == SubU16(c.cpu.sp, 1)
    IN  IF c.fault # "none" THEN c
        ELSE IF sp < 0 THEN Panic(c, sp)
        ELSE [c EXCEPT !.mmu = m, !.cpu.sp = sp]

\* a variant in which the word is stored at sp, one byte too high
push_u16_AtSp(c, value) ==
    LET st == store_u16(c.mmu, c.cpu.sp, value)
        sp == SubU16(c.cpu.sp, 2)
    IN  IF c.fault # "none" THEN c
        ELSE IF st.fault # "none" THEN [c EXCEPT !.fault = st.fault]
        ELSE IF sp < 0 THEN Panic(c, sp)
        ELSE [c EXCEPT !.mmu = st.mmu, !.cpu.sp = sp]

push_u16(c, value) ==
    LET st == store_u16(c.mmu, c.cpu.sp - 1, value)
        sp == SubU16(c.cpu.sp, 2)
    IN  IF c.fault # "none" THEN c
        ELSE IF overflow_checks /\ SubU32Overflows(c.cpu.sp, 1) THEN Panic(c, Overflow)
        ELSE IF st.fault # "none" THEN [c EXCEPT !.fault = st.fault]
        ELSE IF sp < 0 THEN Panic(c, sp)
        ELSE [c EXCEPT !.mmu = st.mmu, !.cpu.sp = sp]

pull_u8(c) ==
    LET sp    == AddU16(c.cpu.sp, 1)
        value == read_u8(c.mmu, sp)
    IN  IF c.fault # "none" THEN c
        ELSE IF sp < 0 THEN Panic(c, sp)
        ELSE IF value < 0 THEN Panic(c, value)
        ELSE [c EXCEPT !.cpu.sp = sp, !.val = value]

\* a variant in which the word is read at sp, one byte too high
pull_u16_AtSp(c) ==
    LET sp    == AddU16(c.cpu.sp, 2)
        value == read_u16(c.mmu, sp)
    IN  IF c.fault # "none" THEN c
        ELSE IF sp < 0 THEN Panic(c, sp)
        ELSE IF value < 0 THEN Panic(c, value)
        ELSE [c EXCEPT !.cpu.sp = sp, !.val = value]

pull_u16(c) ==
    LET sp    == AddU16(c.cpu.sp, 2)
        value == read_u16(c.mmu, sp - 1)
    IN  IF c.fault # "none" THEN c
        ELSE IF sp < 0 THEN Panic(c, sp)
        ELSE IF overflow_checks /\ SubU32Overflows(sp, 1) THEN Panic(c, Overflow)
        ELSE IF value < 0 THEN Panic(c, value)
        ELSE [c EXCEPT !.cpu.sp = sp, !.val = value]

(***************************************************************************)
(* Cpu::fetch, the decoder.  The four shapes of its arms: no operand, one  *)
(* fetch (of 1, 2 or 3 bytes), an Immediate whose width the mode decides,  *)
(* and the two-operand arms 0x22 and 0x54.                                 *)
(***************************************************************************)
Decode0(c, op) == [c EXCEPT !.val = Inst(op, 0, 0, 0)]

DecodeU8(c, op) ==
    LET c1 == fetch_u8(c) IN [c1 EXCEPT !.val = Inst(op, 0, c1.val, 0)]

DecodeU16(c, op) ==
    LET c1 == fetch_u16(c) IN [c1 EXCEPT !.val = Inst(op, 0, c1.val, 0)]

DecodeLong(c, op) ==
    LET c1 == fetch_long(c) IN [c1 EXCEPT !.val = Inst(op, 0, c1.val, 0)]

\* a variant in which emulation does not force the 8-bit operand
DecodeImmediate_FlagOnly(c, op, flag) ==
    IF contains(c.cpu.status, flag)
    THEN LET c1 == fetch_u8(c)  IN [c1 EXCEPT !.val = Inst(op, 8, c1.val, 0)]
    ELSE LET c1 == fetch_u16(c) IN [c1 EXCEPT !.val = Inst(op, 16, c1.val, 0)]

DecodeImmediate(c, op, flag) ==
    IF c.cpu.emulation \/ contains(c.cpu.status, flag)
    THEN LET c1 == fetch_u8(c)  IN [c1 EXCEPT !.val = Inst(op, 8, c1.val, 0)]
    ELSE LET c1 == fetch_u16(c) IN [c1 EXCEPT !.val = Inst(op, 16, c1.val, 0)]

\* 0x22: the address, then the bank
DecodeJumpSubRoutineAbsoluteLong(c) ==
    LET c1 == fetch_u16(c)
        c2 == fetch_u8(c1)
    IN  [c2 EXCEPT !.val = Inst("JumpSubRoutineAbsoluteLong", 0, c2.val, c1.val)]

\* 0x54: the two operands, in the order of their evaluation
DecodeBlockMoveNext(c) ==
    LET c1 == fetch_u8(c)
        c2 == fetch_u8(c1)
    IN  [c2 EXCEPT !.val = Inst("BlockMoveNext", 0, c1.val, c2.val)]

DecodeOpcode(c, opcode) ==
    CASE opcode = \h00 -> Decode0(c, "Break")
      [] opcode = \h08 -> Decode0(c, "PushStatus")
      [] opcode = \h0A -> Decode0(c, "ShiftLeft")
      [] opcode = \h0B -> Decode0(c, "PushD")
      [] opcode = \h18 -> Decode0(c, "ClearCarry")
      [] opcode = \h20 -> DecodeU16(c, "JumpSubRoutineAbsolute")
      [] opcode = \h22 -> DecodeJumpSubRoutineAbsoluteLong(c)
      [] opcode = \h28 -> Decode0(c, "PullStatus")
      [] opcode = \h2B -> Decode0(c, "PullD")
      [] opcode = \h4C -> DecodeU16(c, "JumpAbsolute")
      [] opcode = \h48 -> Decode0(c, "PushA")
      [] opcode = \h54 -> DecodeBlockMoveNext(c)
      [] opcode = \h5A -> Decode0(c, "PushY")
      [] opcode = \h60 -> Decode0(c, "Return")
      [] opcode = \h64 -> DecodeU8(c, "StoreZeroDirectPage")
      [] opcode = \h65 -> DecodeU8(c, "AddWithCarryDirectPage")
      [] opcode = \h68 -> Decode0(c, "PullA")
      [] opcode = \h69 -> DecodeImmediate(c, "AddWithCarryImmediate", MEMORY_SELECT)
      [] opcode = \h6B -> Decode0(c, "ReturnLong")
      [] opcode = \h6D -> DecodeU16(c, "AddWithCarryAbsolute")
      [] opcode = \h74 -> DecodeU8(c, "StoreZeroDirectPageIndexedX")
      [] opcode = \h78 -> Decode0(c, "SetIrqDisable")
      [] opcode = \h7A -> Decode0(c, "PullY")
      [] opcode = \h7B -> Decode0(c, "MoveDA")
      [] opcode = \h80 -> DecodeU8(c, "BranchAlways")
      [] opcode = \h84 -> DecodeU8(c, "StoreYDirectPage")
      [] opcode = \h85 -> DecodeU8(c, "StoreADirectPage")
      [] opcode = \h86 -> DecodeU8(c, "StoreXDirectPage")
      [] opcode = \h88 -> Decode0(c, "DecrementY")
      [] opcode = \h8B -> Decode0(c, "PushB")
      [] opcode = \h8D -> DecodeU16(c, "StoreAAbsolute")
      [] opcode = \h8E -> DecodeU16(c, "StoreXAbsolute")
      [] opcode = \h90 -> DecodeU8(c, "BranchCarryClear")
      [] opcode = \h95 -> DecodeU8(c, "StoreADirectPageIndexedX")
      [] opcode = \h9A -> Decode0(c, "MoveXSP")
      [] opcode = \h9C -> DecodeU16(c, "StoreZeroAbsolute")
      [] opcode = \h9D -> DecodeU16(c, "StoreAAbsoluteIndexedX")
      [] opcode = \h9E -> DecodeU16(c, "StoreZeroAbsoluteIndexedX")
      [] opcode = \h9F -> DecodeLong(c, "StoreAAbsoluteLongIndexedX")
      [] opcode = \hA0 -> DecodeImmediate(c, "LoadYImmediate", INDEX_REGISTER)
      [] opcode = \hA2 -> DecodeImmediate(c, "LoadXImmediate", INDEX_REGISTER)
      [] opcode = \hA4 -> DecodeU8(c, "LoadYDirectPage")
      [] opcode = \hA5 -> DecodeU8(c, "LoadADirectPage")
      [] opcode = \hA6 -> DecodeU8(c, "LoadXDirectPage")
      [] opcode = \hA8 -> Decode0(c, "MoveAY")
      [] opcode = \hA7 -> DecodeU8(c, "LoadADirectPageIndirectLong")
      [] opcode = \hA9 -> DecodeImmediate(c, "LoadAImmediate", MEMORY_SELECT)
      [] opcode = \hAA -> Decode0(c, "MoveAX")
      [] opcode = \hAB -> Decode0(c, "PullB")
      [] opcode = \hAD -> DecodeU16(c, "LoadAAbsolute")
      [] opcode = \hB0 -> DecodeU8(c, "BranchCarrySet")
      [] opcode = \hBD -> DecodeU16(c, "LoadAAbsoluteIndexedX")
      [] opcode = \hBF -> DecodeLong(c, "LoadAAbsoluteLongIndexedX")
      [] opcode = \hC2 -> DecodeU8(c, "ResetFlags")
      [] opcode = \hC5 -> DecodeU8(c, "CompareDirectPage")
      [] opcode = \hC8 -> Decode0(c, "IncrementY")
      [] opcode = \hC9 -> DecodeImmediate(c, "CompareImmediate", MEMORY_SELECT)
      [] opcode = \hCA -> Decode0(c, "DecrementX")
      [] opcode = \hCD -> DecodeU16(c, "CompareAbsolute")
      [] opcode = \hD0 -> DecodeU8(c, "BranchNotEqual")
      [] opcode = \hDA -> Decode0(c, "PushX")
      [] opcode = \hDF -> DecodeLong(c, "CompareAbsoluteLongIndexedX")
      [] opcode = \hE0 -> DecodeImmediate(c, "CompareXImmediate", INDEX_REGISTER)
      [] opcode = \hE2 -> DecodeU8(c, "SetFlags")
      [] opcode = \hE6 -> DecodeU8(c, "IncrementDirectPage")
      [] opcode = \hE8 -> Decode0(c, "IncrementX")
      [] opcode = \hEB -> Decode0(c, "ExchangeBA")
      [] opcode = \hF0 -> DecodeU8(c, "BranchEqual")
      [] opcode = \hF4 -> DecodeU16(c, "PushAbsolute")
      [] opcode = \hFA -> Decode0(c, "PullX")
      [] opcode = \hFB -> Decode0(c, "ExchangeCE")
      [] OTHER         -> Decode0(c, "Unknown")

\* Cpu::fetch: the context after the fetches, its val the Instruction
fetch(c) ==
    LET c1 == fetch_u8(c)
    IN  IF c1.fault # "none" THEN c1 ELSE DecodeOpcode(c1, c1.val)

(***************************************************************************)
(* Cpu::tick, one arm of its match per operator.  Each takes the context   *)
(* after the fetch and the operands of the Instruction.                    *)
(***************************************************************************)
\* the width test of the arms: 8 bits in emulation or with the flag set
Is8Bit(r, flag) == r.emulation \/ contains(r.status, flag)

\* the arm passes addr to the Mmu
Accessing(c, addr) == [c EXCEPT !.ea = Append(@, addr)]

\* load_u8(&mut self.<target>, &mut self.status, mmu.read_u8(addr))
LoadU8At(c, target, addr) ==
    LET value == read_u8(c.mmu, addr)
    IN  IF value < 0 THEN Panic(Accessing(c, addr), value)
        ELSE [Accessing(c, addr) EXCEPT !.cpu = load_u8(@, target, value)]

\* load_u16(&mut self.<target>, &mut self.status, mmu.read_u16(addr))
LoadU16At(c, target, addr) ==
    LET value == read_u16(c.mmu, addr)
    IN  IF value < 0 THEN Panic(Accessing(c, addr), value)
        ELSE [Accessing(c, addr) EXCEPT !.cpu = load_u16(@, target, value)]

\* mmu.store_u16(addr, value)
StoreU16At(c, addr, value) ==
    LET st == store_u16(c.mmu, addr, value)
    IN  IF st.fault # "none" THEN [Accessing(c, addr) EXCEPT !.fault = st.fault]
        ELSE [Accessing(c, addr) EXCEPT !.mmu = st.mmu]

\* mmu.store_u8(addr, 0)
StoreZeroAt(c, addr) == [Accessing(c, addr) EXCEPT !.mmu = store_u8(@, addr, 0)]

\* the status after `set(NEGATIVE, (v >> 15) & 1 == 1); set(ZERO, v == 0)`
NegativeZero16(status, v) == set(set(status, NEGATIVE, Bit(v, 15) = 1), ZERO, v = 0)

\* the status after `set(NEGATIVE, (v >> 7) & 1 == 1); set(ZERO, v == 0)`
NegativeZero8(status, v) == set(set(status, NEGATIVE, Bit(v, 7) = 1), ZERO, v = 0)

LoadImmediate(c, target, inst) ==
    IF inst.width = 8
    THEN [c EXCEPT !.cpu = load_u8(@, target, inst.arg)]
    ELSE [c EXCEPT !.cpu = load_u16(@, target, inst.arg)]

LoadAImmediate(c, inst) == LoadImmediate(c, "a", inst)
LoadXImmediate(c, inst) == LoadImmediate(c, "x", inst)
LoadYImmediate(c, inst) == LoadImmediate(c, "y", inst)

LoadAAbsolute(c, addr) == LoadU8At(c, "a", bank_addr(c.cpu.data_bank, addr))

LoadADirectPage(c, addr) == LoadU8At(c, "a", c.cpu.direct_page + addr)

LoadADirectPageIndirectLong(c, addr) ==
    LET ptr == read_long(c.mmu, c.cpu.direct_page + addr)
        c1  == Accessing(c, c.cpu.direct_page + addr)
    IN  IF ptr < 0 THEN Panic(c1, ptr) ELSE LoadU8At(c1, "a", ptr)

\* a variant in which the index wraps inside the data bank
LoadAAbsoluteIndexedX_WrapsInBank(c, addr) ==
    LoadU8At(c, "a", bank_addr(c.cpu.data_bank, (addr + c.cpu.x) % U16))

LoadAAbsoluteIndexedX(c, addr) ==
    LoadU8At(c, "a", bank_addr(c.cpu.data_bank, addr) + c.cpu.x)

LoadAAbsoluteLongIndexedX(c, addr) == LoadU8At(c, "a", addr + c.cpu.x)

LoadXDirectPage(c, addr) == LoadU16At(c, "x", c.cpu.direct_page + addr)

LoadYDirectPage(c, addr) == LoadU16At(c, "y", c.cpu.direct_page + addr)

StoreAAbsolute(c, addr) ==
    StoreU16At(c, bank_addr(c.cpu.data_bank, addr), c.cpu.a)

StoreADirectPage(c, addr) == StoreU16At(c, c.cpu.direct_page + addr, c.cpu.a)

StoreAAbsoluteIndexedX(c, addr) ==
    StoreU16At(c, bank_addr(c.cpu.data_bank, addr) + c.cpu.x, c.cpu.a)

StoreAAbsoluteLongIndexedX(c, addr) == StoreU16At(c, addr + c.cpu.x, c.cpu.a)

StoreADirectPageIndexedX(c, addr) ==
    StoreU16At(c, c.cpu.direct_page + addr + c.cpu.x, c.cpu.a)

StoreXAbsolute(c, addr) ==
    StoreU16At(c, bank_addr(c.cpu.data_bank, addr), c.cpu.x)

StoreXDirectPage(c, addr) == StoreU16At(c, c.cpu.direct_page + addr, c.cpu.x)

StoreYDirectPage(c, addr) == StoreU16At(c, c.cpu.direct_page + addr, c.cpu.y)

StoreZeroAbsolute(c, addr) == StoreZeroAt(c, bank_addr(c.cpu.data_bank, addr))

StoreZeroDirectPage(c, addr) == StoreZeroAt(c, c.cpu.direct_page + addr)

StoreZeroAbsoluteIndexedX(c, addr) ==
    StoreZeroAt(c, bank_addr(c.cpu.data_bank, addr) + c.cpu.x)

StoreZeroDirectPageIndexedX(c, addr) ==
    StoreZeroAt(c, c.cpu.direct_page + addr + c.cpu.x)

AddWithCarryImmediate(c, inst) ==
    IF inst.width = 8
    THEN [c EXCEPT !.cpu = adc_u8(@, "a", inst.arg)]
    ELSE [c EXCEPT !.cpu = adc_u16(@, "a", inst.arg)]

\* adc of the operand at addr, at the width of the accumulator
AddWithCarryAt(c, addr) ==
    LET value == IF Is8Bit(c.cpu, MEMORY_SELECT)
                 THEN read_u8(c.mmu, addr) ELSE read_u16(c.mmu, addr)
    IN  IF value < 0 THEN Panic(Accessing(c, addr), value)
        ELSE IF Is8Bit(c.cpu, MEMORY_SELECT)
        THEN [Accessing(c, addr) EXCEPT !.cpu = adc_u8(@, "a", value)]
        ELSE [Accessing(c, addr) EXCEPT !.cpu = adc_u16(@, "a", value)]

AddWithCarryAbsolute(c, addr) ==
    AddWithCarryAt(c, bank_addr(c.cpu.data_bank, addr))

AddWithCarryDirectPage(c, addr) == AddWithCarryAt(c, c.cpu.direct_page + addr)

IncrementDirectPage(c, addr) ==
    LET offset_addr == c.cpu.direct_page + addr
        read        == read_u8(c.mmu, offset_addr)
        value       == (read + 1) % U8
    IN  IF read < 0 THEN Panic(Accessing(c, offset_addr), read)
        ELSE [Accessing(c, offset_addr) EXCEPT
                  !.mmu = store_u8(@, offset_addr, value),
                  !.cpu.status = NegativeZero8(@, value)]

\* INX, INY, DEX, DEY: the register plus delta, wrapping at 16 bits
StepIndex(c, target, delta) ==
    LET value == (c.cpu[target] + delta) % U16
    IN  [c EXCEPT !.cpu[target] = value, !.cpu.status = NegativeZero16(@, value)]

IncrementX(c) == StepIndex(c, "x", 1)
IncrementY(c) == StepIndex(c, "y", 1)
DecrementX(c) == StepIndex(c, "x", -1)
DecrementY(c) == StepIndex(c, "y", -1)

ShiftLeft(c) ==
    LET original == AsU8(c.cpu.a)
        value    == (original * 2) % U8
    IN  [c EXCEPT !.cpu.status =
                      set(set(set(@, NEGATIVE, Bit(value, 7) = 1),
                              ZERO, c.cpu.y = 0),
                          CARRY, Bit(original, 7) = 1),
                  !.cpu.a = value]

\* TAX, TAY, TDC: target = source, at 16 bits
Move(c, target, source) ==
    LET value == c.cpu[source]
    IN  [c EXCEPT !.cpu[target] = value, !.cpu.status = NegativeZero16(@, value)]

MoveAX(c) == Move(c, "x", "a")
MoveAY(c) == Move(c, "y", "a")
MoveDA(c) == Move(c, "a", "direct_page")

MoveXSP(c) ==
    [c EXCEPT !.cpu.sp = c.cpu.x, !.cpu.sp_base = c.cpu.x,
              !.cpu.status = NegativeZero16(@, c.cpu.x)]

ExchangeBA(c) ==
    LET value == BitOr((c.cpu.a * 256) % U16, c.cpu.a \div 256)
    IN  [c EXCEPT !.cpu.a = value,
                  !.cpu.status = set(set(@, NEGATIVE, value % 2 = 1),
                                     ZERO, value % 2 = 1)]

\* the `while self.a != 0xFFFF` loop of the BlockMoveNext arm
RECURSIVE BlockMoveLoop(_, _)
BlockMoveLoop(c, src) ==
    IF c.fault # "none" \/ c.cpu.a = \hFFFF THEN c
    ELSE LET value == read_u8(c.mmu, bank_addr(src, c.cpu.x))
         IN  IF value < 0 THEN Panic(c, value)
             ELSE BlockMoveLoop(
                      [c EXCEPT !.mmu = store_u8(@, bank_addr(c.cpu.data_bank, c.cpu.y),
                                                 value),
                                !.cpu.a = (@ - 1) % U16,
                                !.cpu.x = (@ + 1) % U16,
                                !.cpu.y = (@ + 1) % U16,
                                !.moved = @ + 1],
                      src)

BlockMoveNext(c, dest, src) ==
    BlockMoveLoop([c EXCEPT !.cpu.data_bank = dest], src)

CompareImmediate(c, inst) ==
    IF inst.width = 8
    THEN [c EXCEPT !.cpu.status = compare_u8(@, AsU8(c.cpu.a), inst.arg)]
    ELSE [c EXCEPT !.cpu.status = compare_u16(@, c.cpu.a, inst.arg)]

CompareXImmediate(c, inst) ==
    IF inst.width = 8
    THEN [c EXCEPT !.cpu.status = compare_u8(@, AsU8(c.cpu.x), inst.arg)]
    ELSE [c EXCEPT !.cpu.status = compare_u16(@, c.cpu.x, inst.arg)]

\* compare_u8(&mut self.status, self.a as u8, mmu.read_u8(addr))
CompareU8At(c, addr) ==
    LET value == read_u8(c.mmu, addr)
    IN  IF value < 0 THEN Panic(Accessing(c, addr), value)
        ELSE [Accessing(c, addr) EXCEPT !.cpu.status = compare_u8(@, AsU8(c.cpu.a), value)]

CompareAbsolute(c, addr) == CompareU8At(c, bank_addr(c.cpu.data_bank, addr))

CompareDirectPage(c, addr) == CompareU8At(c, c.cpu.direct_page + addr)

CompareAbsoluteLongIndexedX(c, addr) == CompareU8At(c, addr + c.cpu.x)

Branch(c, offset, should_branch) ==
    [c EXCEPT !.cpu.pc = branch(@, offset, should_branch)]

BranchCarryClear(c, offset) == Branch(c, offset, ~contains(c.cpu.status, CARRY))
BranchCarrySet(c, offset)   == Branch(c, offset, contains(c.cpu.status, CARRY))
BranchNotEqual(c, offset)   == Branch(c, offset, ~contains(c.cpu.status, ZERO))
BranchEqual(c, offset)      == Branch(c, offset, contains(c.cpu.status, ZERO))
BranchAlways(c, offset)     == Branch(c, offset, TRUE)

\* PHA, PHX, PHY: the register, at the width its flag selects
PushRegister(c, source, flag) ==
    IF Is8Bit(c.cpu, flag)
    THEN push_u8(c, AsU8(c.cpu[source]))
    ELSE push_u16(c, c.cpu[source])

PushA(c) == PushRegister(c, "a", MEMORY_SELECT)
PushX(c) == PushRegister(c, "x", INDEX_REGISTER)
PushY(c) == PushRegister(c, "y", INDEX_REGISTER)
PushB(c) == push_u8(c, c.cpu.data_bank)
PushD(c) == push_u16(c, c.cpu.direct_page)
PushStatus(c) == push_u8(c, c.cpu.status)
PushAbsolute(c, addr) == push_u16(c, addr)

\* PLA, PLX, PLY: the register, at the width its flag selects
PullRegister(c, target, flag) ==
    LET c1 == IF Is8Bit(c.cpu, flag) THEN pull_u8(c) ELSE pull_u16(c)
    IN  IF c1.fault # "none" THEN c1
        ELSE IF Is8Bit(c.cpu, flag)
        THEN [c1 EXCEPT !.cpu = load_u8(@, target, c1.val)]
        ELSE [c1 EXCEPT !.cpu = load_u16(@, target, c1.val)]

PullA(c) == PullRegister(c, "a", MEMORY_SELECT)
PullX(c) == PullRegister(c, "x", INDEX_REGISTER)
PullY(c) == PullRegister(c, "y", INDEX_REGISTER)

PullB(c) ==
    LET c1 == pull_u8(c)
    IN  IF c1.fault # "none" THEN c1
        ELSE [c1 EXCEPT !.cpu.data_bank = c1.val,
                        !.cpu.status = NegativeZero8(@, c1.val)]

PullD(c) ==
    LET c1 == pull_u16(c)
    IN  IF c1.fault # "none" THEN c1
        ELSE [c1 EXCEPT !.cpu = load_u16(@, "direct_page", c1.val)]

PullStatus(c) ==
    LET c1 == pull_u8(c)
    IN  IF c1.fault # "none" THEN c1
        ELSE [c1 EXCEPT !.cpu.status =
                            NegativeZero8(from_bits_truncate(c1.val), c1.val)]

JumpAbsolute(c, addr) == [c EXCEPT !.cpu.pc = addr]

JumpSubRoutineAbsolute(c, addr) ==
    LET ret_addr == SubU16(c.cpu.pc, 1)
        c1       == push_u16(c, ret_addr)
    IN  IF ret_addr < 0 THEN Panic(c, ret_addr)
        ELSE IF c1.fault # "none" THEN c1
        ELSE [c1 EXCEPT !.cpu.pc = addr]

JumpSubRoutineAbsoluteLong(c, bank, addr) ==
    LET ret_addr == SubU16(c.cpu.pc, 1)
        c1       == push_u16(c, ret_addr)
        c2       == push_u8(c1, c.cpu.program_bank)
    IN  IF ret_addr < 0 THEN Panic(c, ret_addr)
        ELSE IF c2.fault # "none" THEN c2
        ELSE [c2 EXCEPT !.cpu.program_bank = bank, !.cpu.pc = addr]

\* a variant in which RTS does not add the 1 back
Return_NoIncrement(c) ==
    LET c1 == pull_u16(c)
    IN  IF c1.fault # "none" THEN c1
        ELSE [c1 EXCEPT !.cpu.pc = c1.val]

Return(c) ==
    LET c1 == pull_u16(c)
    IN  IF c1.fault # "none" THEN c1
        ELSE [c1 EXCEPT !.cpu.pc = (c1.val + 1) % U16]

ReturnLong(c) ==
    LET c1 == pull_u8(c)
        c2 == pull_u16(c1)
    IN  IF c2.fault # "none" THEN c2
        ELSE [c2 EXCEPT !.cpu.pc = (c2.val + 1) % U16, !.cpu.program_bank = c1.val]

\* a variant in which CLC leaves emulation mode as well
ClearCarry_LeavesEmulation(c) ==
    [c EXCEPT !.cpu.status = remove(@, CARRY), !.cpu.emulation = FALSE]

ClearCarry(c) == [c EXCEPT !.cpu.status = remove(@, CARRY)]

SetIrqDisable(c) == [c EXCEPT !.cpu.status = insert(@, IRQ_DISABLE)]

\* a variant in which the two width bits stay set in emulation mode
ResetFlags_KeepsWidthsInEmulation(c, mask) ==
    LET status == BitAnd(c.cpu.status, Not8(from_bits_truncate(mask)))
    IN  [c EXCEPT !.cpu.status =
                     IF c.cpu.emulation THEN BitOr(status, BitAnd(c.cpu.status, \h30))
                     ELSE status]

ResetFlags(c, mask) ==
    [c EXCEPT !.cpu.status = BitAnd(@, Not8(from_bits_truncate(mask)))]

SetFlags(c, mask) ==
    [c EXCEPT !.cpu.status = BitOr(@, from_bits_truncate(mask))]

\* a variant in which Carry is left as it was
ExchangeCE_KeepsCarry(c) ==
    [c EXCEPT !.cpu.emulation = contains(c.cpu.status, CARRY)]

ExchangeCE(c) ==
    LET carry == contains(c.cpu.status, CARRY)
    IN  [c EXCEPT !.cpu.emulation = carry, !.cpu.status = toggle(@, CARRY)]

Break(c) == c

\* a variant in which the Unknown arm clears the accumulator
Unknown_ClearsA(c) == [c EXCEPT !.cpu.a = 0]

Unknown(c) == c

\* the match of Cpu::tick
Execute(c, inst) ==
    LET op == inst.op
    IN  CASE op = "Unknown" -> Unknown(c)
          [] op = "LoadAImmediate" -> LoadAImmediate(c, inst)
          [] op = "LoadAAbsolute" -> LoadAAbsolute(c, inst.arg)
          [] op = "LoadADirectPage" -> LoadADirectPage(c, inst.arg)
          [] op = "LoadADirectPageIndirectLong" -> LoadADirectPageIndirectLong(c, inst.arg)
          [] op = "LoadAAbsoluteIndexedX" -> LoadAAbsoluteIndexedX(c, inst.arg)
          [] op = "LoadAAbsoluteLongIndexedX" -> LoadAAbsoluteLongIndexedX(c, inst.arg)
          [] op = "LoadXImmediate" -> LoadXImmediate(c, inst)
          [] op = "LoadXDirectPage" -> LoadXDirectPage(c, inst.arg)
          [] op = "LoadYImmediate" -> LoadYImmediate(c, inst)
          [] op = "LoadYDirectPage" -> LoadYDirectPage(c, inst.arg)
          [] op = "StoreAAbsolute" -> StoreAAbsolute(c, inst.arg)
          [] op = "StoreADirectPage" -> StoreADirectPage(c, inst.arg)
          [] op = "StoreAAbsoluteIndexedX" -> StoreAAbsoluteIndexedX(c, inst.arg)
          [] op = "StoreAAbsoluteLongIndexedX" -> StoreAAbsoluteLongIndexedX(c, inst.arg)
          [] op = "StoreADirectPageIndexedX" -> StoreADirectPageIndexedX(c, inst.arg)
          [] op = "StoreXAbsolute" -> StoreXAbsolute(c, inst.arg)
          [] op = "StoreXDirectPage" -> StoreXDirectPage(c, inst.arg)
          [] op = "StoreYDirectPage" -> StoreYDirectPage(c, inst.arg)
          [] op = "StoreZeroAbsolute" -> StoreZeroAbsolute(c, inst.arg)
          [] op = "StoreZeroDirectPage" -> StoreZeroDirectPage(c, inst.arg)
          [] op = "StoreZeroAbsoluteIndexedX" -> StoreZeroAbsoluteIndexedX(c, inst.arg)
          [] op = "StoreZeroDirectPageIndexedX" -> StoreZeroDirectPageIndexedX(c, inst.arg)
          [] op = "AddWithCarryImmediate" -> AddWithCarryImmediate(c, inst)
          [] op = "AddWithCarryAbsolute" -> AddWithCarryAbsolute(c, inst.arg)
          [] op = "AddWithCarryDirectPage" -> AddWithCarryDirectPage(c, inst.arg)
          [] op = "IncrementDirectPage" -> IncrementDirectPage(c, inst.arg)
          [] op = "IncrementX" -> IncrementX(c)
          [] op = "IncrementY" -> IncrementY(c)
          [] op = "DecrementX" -> DecrementX(c)
          [] op = "DecrementY" -> DecrementY(c)
          [] op = "ShiftLeft" -> ShiftLeft(c)
          [] op = "MoveAX" -> MoveAX(c)
          [] op = "MoveAY" -> MoveAY(c)
          [] op = "MoveDA" -> MoveDA(c)
          [] op = "MoveXSP" -> MoveXSP(c)
          [] op = "ExchangeBA" -> ExchangeBA(c)
          [] op = "BlockMoveNext" -> BlockMoveNext(c, inst.arg, inst.arg2)
          [] op = "CompareImmediate" -> CompareImmediate(c, inst)
          [] op = "CompareAbsolute" -> CompareAbsolute(c, inst.arg)
          [] op = "CompareDirectPage" -> CompareDirectPage(c, inst.arg)
          [] op = "CompareAbsoluteLongIndexedX" -> CompareAbsoluteLongIndexedX(c, inst.arg)
          [] op = "CompareXImmediate" -> CompareXImmediate(c, inst)
          [] op = "BranchCarryClear" -> BranchCarryClear(c, inst.arg)
          [] op = "BranchCarrySet" -> BranchCarrySet(c, inst.arg)
          [] op = "BranchNotEqual" -> BranchNotEqual(c, inst.arg)
          [] op = "BranchEqual" -> BranchEqual(c, inst.arg)
          [] op = "BranchAlways" -> BranchAlways(c, inst.arg)
          [] op = "PushA" -> PushA(c)
          [] op = "PushB" -> PushB(c)
          [] op = "PushD" -> PushD(c)
          [] op = "PushX" -> PushX(c)
          [] op = "PushY" -> PushY(c)
          [] op = "PushStatus" -> PushStatus(c)
          [] op = "PushAbsolute" -> PushAbsolute(c, inst.arg)
          [] op = "PullA" -> PullA(c)
          [] op = "PullB" -> PullB(c)
          [] op = "PullD" -> PullD(c)
          [] op = "PullX" -> PullX(c)
          [] op = "PullY" -> PullY(c)
          [] op = "PullStatus" -> PullStatus(c)
          [] op = "JumpAbsolute" -> JumpAbsolute(c, inst.arg)
          [] op = "JumpSubRoutineAbsolute" -> JumpSubRoutineAbsolute(c, inst.arg)
          [] op = "JumpSubRoutineAbsoluteLong" ->
                 JumpSubRoutineAbsoluteLong(c, inst.arg, inst.arg2)
          [] op = "Return" -> Return(c)
          [] op = "ReturnLong" -> ReturnLong(c)
          [] op = "ClearCarry" -> ClearCarry(c)
          [] op = "SetIrqDisable" -> SetIrqDisable(c)
          [] op = "ResetFlags" -> ResetFlags(c, inst.arg)
          [] op = "SetFlags" -> SetFlags(c, inst.arg)
          [] op = "ExchangeCE" -> ExchangeCE(c)
          [] op = "Break" -> Break(c)

\* Cpu::tick: the context after one step
tick(c) ==
    LET c1 == fetch(c)
        c2 == Execute(c1, c1.val)
    IN  IF c1.fault # "none" THEN c1
        ELSE IF c2.fault # "none" THEN c2
        ELSE [c2 EXCEPT !.cpu.last_instruction = c1.val]

(***************************************************************************)
(* The machine states a run of the execution engine starts from.  Every    *)
(* register value is one a program can load (LDA/LDX/LDY #, TXS, PLD, PLB, *)
(* JSL, SEP/REP, XCE), every RAM byte one a program can store, and the     *)
(* cartridge is whatever file the loader read.  A scenario names the       *)
(* instruction at (program bank, PC), the byte that fills the rest of the  *)
(* cartridge (the opcode of the instructions that follow) and the          *)
(* registers.                                                              *)
(***************************************************************************)
\* the cartridge sizes tried: one bank of ROM, two banks of ROM
CartLens == {\h8000, \h10000}

\* memory with `value` at addr: in the cartridge when addr is in the ROM
\* window (the loader put it there), by a store otherwise
Poke(m, addr, value) ==
    LET bank   == AsU8(addr \div 65536)
        offset == addr % 65536
        i      == (offset - \h8000) + bank * \h8000
    IN  IF bank <= \h3F /\ offset >= \h8000
        THEN IF i < m.cartridge.len
             THEN [m EXCEPT !.cartridge.patch =
                       [j \in DOMAIN @ \cup {i} |-> IF j = i THEN value ELSE @[j]]]
             ELSE m
        ELSE store_u8(m, addr, value)

\* memory with `bytes` where the fetches of an instruction at (bank, pc) read
\* them: PC wraps inside the bank
RECURSIVE PokeCode(_, _, _, _)
PokeCode(m, bank, pc, bytes) ==
    IF bytes = <<>> THEN m
    ELSE PokeCode(Poke(m, bank_addr(bank, pc), Head(bytes)),
                  bank, (pc + 1) % U16, Tail(bytes))

\* RAM holding a non-zero byte at a few offsets of the first pages, around
\* the stack of Cpu::new and at the end of the RAM window
RamPatternOffsets ==
    (0 .. 5) \cup (\h10 .. \h14) \cup (\h1FC .. \h1FF) \cup (\h1FFD .. \h1FFF)

RamPattern == [o \in RamPatternOffsets |-> ((o * 7) % 255) + 1]

Scenario(code, fill, len, pb, pc, a, x, y, sp, d, db, status, emulation, ram) ==
    [code |-> code, fill |-> fill, len |-> len, pb |-> pb, pc |-> pc,
     a |-> a, x |-> x, y |-> y, sp |-> sp, d |-> d, db |-> db,
     status |-> status, emulation |-> emulation, ram |-> ram]

ScenarioCpu(s) ==
    [CpuNew EXCEPT !.a = s.a, !.x = s.x, !.y = s.y, !.pc = s.pc, !.sp = s.sp,
                   !.direct_page = s.d, !.program_bank = s.pb, !.data_bank = s.db,
                   !.status = s.status, !.emulation = s.emulation]

ScenarioMmu(s) ==
    PokeCode([MmuNew([len |-> s.len, fill |-> s.fill, patch |-> EmptyRam])
                  EXCEPT !.ram = s.ram],
             s.pb, s.pc, s.code)

\* the run starts in scenario s
Start(s) == cpu = ScenarioCpu(s) /\ mmu = ScenarioMmu(s)

\* the width modes: emulation, and native with each setting of the M and X bits
Modes ==
    {<<TRUE, 0>>, <<TRUE, \h30>>, <<FALSE, 0>>, <<FALSE, \h10>>, <<FALSE, \h20>>,
     <<FALSE, \h30>>}

\* the opcodes of the decode table of Cpu::fetch
KnownOpcodes ==
    {\h00, \h08, \h0A, \h0B, \h18, \h20, \h22, \h28, \h2B, \h4C, \h48, \h54, \h5A,
     \h60, \h64, \h65, \h68, \h69, \h6B, \h6D, \h74, \h78, \h7A, \h7B, \h80, \h84,
     \h85, \h86, \h88, \h8B, \h8D, \h8E, \h90, \h95, \h9A, \h9C, \h9D, \h9E, \h9F,
     \hA0, \hA2, \hA4, \hA5, \hA6, \hA8, \hA7, \hA9, \hAA, \hAB, \hAD, \hB0, \hBD,
     \hBF, \hC2, \hC5, \hC8, \hC9, \hCA, \hCD, \hD0, \hDA, \hDF, \hE0, \hE2, \hE6,
     \hE8, \hEB, \hF0, \hF4, \hFA, \hFB}

\* the operand bytes tried after an opcode
Operands == {<<0, 0, 0>>, <<\h42, \h80, \h7E>>, <<\hFF, \h1F, \h00>>, <<\h10, \h00, \h7F>>}

\* every opcode of the table, with each operand, in each width mode, in the
\* middle and at the end of the bank (a block move with a counter within the
\* bound)
DecodeScenarios ==
    \E opcode \in KnownOpcodes, operands \in Operands, mode \in Modes,
        pc \in {\h8000, \hFFFD, \hFFFF}, flags \in {0, 3} :
        Start(Scenario(<<opcode>> \o operands, 0, \h10000, 0, pc,
               IF opcode = \h54 THEN MaxCount ELSE \h12FF, \h0002, \h0001, \h01FF,
               \h0010, 0,
               BitOr(mode[2], flags), mode[1], RamPattern))

\* every byte as the opcode
OpcodeScenarios ==
    \E opcode \in 0 .. 255, len \in CartLens, pc \in {\h8000, \hFFFF},
        mode \in {<<TRUE, 0>>, <<FALSE, 0>>} :
        Start(Scenario(<<opcode, \h42, \h80, \h7E>>, 0, len, 0, pc,
               \h12FF, \h0002, \h0001, \h01FF, \h0010, 0,
               mode[2], mode[1], RamPattern))

\* a push followed by a pull, on a stack inside, at the edges of and outside RAM
PushOpcodes == {\h48, \hDA, \h5A, \h0B, \h8B, \h08, \hF4}
PullOpcodes == {\h68, \hFA, \h7A, \h2B, \hAB, \h28}
StackValues == {\h0000, \h00FF, \h1280, \hFFFF}
StackPointers == {\h0000, \h0001, \h0002, \h01FF, \h1FFF, \h2000, \h2001, \hFFFF}

StackScenarios ==
    \E opcode \in PushOpcodes, fill \in PullOpcodes, v \in StackValues,
        sp \in StackPointers, mode \in Modes :
        Start(Scenario(IF opcode = \hF4 THEN <<opcode, \h34, \h12>> ELSE <<opcode>>,
               fill, \h10000, 0, \h8000,
               v, (v + \h0101) % U16, (v + \h0202) % U16, sp,
               (v + \h0303) % U16, (v + 4) % U8,
               mode[2], mode[1], RamPattern))

\* PHP then PLP, for every status byte
StatusScenarios ==
    \E status \in 0 .. 255, emulation \in BOOLEAN, sp \in {\h01FF, \h1FFF} :
        Start(Scenario(<<\h08>>, \h28, \h8000, 0, \h8000, 1, 2, 3, sp, 0, 0,
               status, emulation, EmptyRam))

\* a call (JSR, JSL) into a cartridge of returns (RTS, RTL), from either bank
CallScenarios ==
    \E opcode \in {\h20, \h22}, fill \in {\h60, \h6B},
        target \in {<<\h00, \h90, \h00>>, <<\h34, \h82, \h01>>, <<\hFF, \hFF, \h01>>},
        pb \in {0, 1}, pc \in {\h8000, \h8ABC, \hFFFC, \hFFFD, \hFFFF},
        sp \in StackPointers, emulation \in BOOLEAN :
        Start(Scenario(<<opcode>> \o target, fill, \h10000, pb, pc,
               1, 2, 3, sp, 0, 0, 0, emulation, RamPattern))

\* a block move (MVN dest, src) between RAM, its mirror, ROM and bank 0x7F
BlockBanks == {\h00, \h01, \h7E, \h7F}

BlockScenarios ==
    \E dest \in BlockBanks, src \in BlockBanks,
        a \in (0 .. MaxCount) \cup {\hFFFF},
        x \in {\h0000, \h0010, \h1FFE, \h8000, \hFFFF},
        y \in {\h0001, \h0100, \h1FFF, \hFFFE}, emulation \in BOOLEAN :
        Start(Scenario(<<\h54, dest, src>>, 0, \h10000, 0, \h8000,
               a, x, y, \h01FF, 0, 0, 0, emulation, RamPattern))

\* a pull with the stack pointer at the top of the 16-bit range
PullEdgeScenarios ==
    \E opcode \in PullOpcodes, sp \in {\hFFFD, \hFFFE, \hFFFF}, mode \in Modes :
        Start(Scenario(<<opcode>>, 0, \h10000, 0, \h8000,
               \h1234, \h5678, \h9ABC, sp, 0, 0,
               mode[2], mode[1], RamPattern))

\* the instructions that write PC, in bank 0x01: branches taken and not
\* taken, forwards past the end of the bank and backwards, JMP, JSR and RTS
JumpOpcodes == {\h80, \h90, \hB0, \hD0, \hF0, \h4C, \h20, \h60}

JumpScenarios ==
    \E opcode \in JumpOpcodes, operand \in {<<\h7F, \h00>>, <<\hF0, \hFF>>},
        pc \in {\h8000, \hFFFC, \hFFFD}, flags \in {0, 3}, emulation \in BOOLEAN :
        Start(Scenario(<<opcode>> \o operand, 0, \h10000, \h01, pc,
               \h1234, \h0002, \h0001, \h01FF, 0, 0,
               flags, emulation, RamPattern))

Scenarios ==
    \/ DecodeScenarios
    \/ OpcodeScenarios
    \/ StackScenarios
    \/ StatusScenarios
    \/ CallScenarios
    \/ BlockScenarios
    \/ PullEdgeScenarios
    \/ JumpScenarios

\* no call was made on the Mmu from outside the Cpu
NoCall == [fn |-> "none", addr |-> 0, value |-> 0]

\* no tick is being run iteration by iteration
NotInTick == [pc |-> "idle", inst |-> InstUnknown]

Untouched ==
    /\ call = NoCall /\ ret = 0 /\ stores = <<>> /\ ncalls = 0 /\ moved = 0 /\ ea = <<>>
    /\ tickat = NotInTick

Init ==
    /\ Scenarios
    /\ overflow_checks \in BOOLEAN
    /\ fault = "none"
    /\ snapshots = <<>>
    /\ mainpc = "exited"
    /\ nticks = 0
    /\ trace = <<>>
    /\ Untouched

\* cpu.tick(&mut mmu) returned, or panicked, with c
Ticked(c) ==
    /\ fault' = c.fault
    /\ cpu' = IF c.fault = "none" THEN c.cpu ELSE cpu
    /\ mmu' = IF c.fault = "none" THEN c.mmu ELSE mmu
    /\ moved' = c.moved
    /\ ea' = c.ea
    /\ nticks' = nticks + 1
    /\ trace' = Append(trace, [cpu |-> cpu, mmu |-> mmu])

\* one call of cpu.tick(&mut mmu)
Tick ==
    /\ fault = "none"
    /\ nticks < MaxTicks
    /\ Ticked(tick(Ctx(cpu, mmu)))
    /\ UNCHANGED <<overflow_checks, tickat, snapshots, mainpc, call, ret, stores, ncalls>>

Next == Tick

Spec == Init /\ [][Next]_vars

(***************************************************************************)
(* The arithmetic of one instruction: ticks from machine states that put   *)
(* every operand byte in front of the loads, compares, additions and       *)
(* branches, and every status byte in front of XCE.                        *)
(***************************************************************************)
\* the operand words: every low byte under a zero high byte, and the edges
\* of the low byte under other high bytes
OperandWords ==
    {<<lo, 0>> : lo \in 0 .. 255} \cup
    {<<lo, hi>> : lo \in {\h00, \h01, \h7F, \h80, \hFF}, hi \in {\h01, \h12, \h80, \hFF}}

\* the register values: the edges of both widths, with and without a high byte
RegisterValues == {\h0000, \h0001, \h0080, \h00FF, \h1234, \h8000, \hFFFF}

\* the modes that decide one register's width: emulation, native 8 and 16 bit
WidthModes == {<<TRUE, 0>>, <<FALSE, \h30>>, <<FALSE, 0>>}

\* LDA #, LDX #, LDY # of every operand, the other status bits clear and set
LoadScenarios ==
    \E opcode \in {\hA9, \hA2, \hA0}, w \in OperandWords, mode \in Modes,
        flags \in {\h00, \hCF} :
        Start(Scenario(<<opcode, w[1], w[2]>>, 0, \h8000, 0, \h8000,
               \h5555, \h5555, \h5555, \h01FF, 0, 0,
               BitOr(mode[2], flags), mode[1], EmptyRam))

\* CMP #, CPX # of every operand with the register values
CompareScenarios ==
    \E opcode \in {\hC9, \hE0}, w \in OperandWords, v \in RegisterValues,
        mode \in WidthModes, flags \in {\h00, \h03} :
        Start(Scenario(<<opcode, w[1], w[2]>>, 0, \h8000, 0, \h8000,
               v, v, \h5555, \h01FF, 0, 0,
               BitOr(mode[2], flags), mode[1], EmptyRam))

\* ADC # of every operand to the register values with either carry, and ADC
\* absolute and direct page of the bytes at 0x0010
AddScenarios ==
    \/ \E w \in OperandWords, v \in RegisterValues, mode \in WidthModes,
           carry \in {0, 1} :
           Start(Scenario(<<\h69, w[1], w[2]>>, 0, \h8000, 0, \h8000,
                  v, 2, 3, \h01FF, 0, 0,
                  BitOr(mode[2], carry), mode[1], EmptyRam))
    \/ \E opcode \in {\h6D, \h65}, v \in RegisterValues, mode \in WidthModes,
           carry \in {0, 1} :
           Start(Scenario(<<opcode, \h10, \h00>>, 0, \h8000, 0, \h8000,
                  v, 2, 3, \h01FF, 0, 0,
                  BitOr(mode[2], carry), mode[1], RamPattern))

\* every branch with every displacement, under each Carry and Zero, in the
\* middle of the ROM, in RAM, and where the operand ends the bank
BranchOpcodes == {\h90, \hB0, \hD0, \hF0, \h80}

BranchScenarios ==
    \E opcode \in BranchOpcodes, d \in 0 .. 255, flags \in 0 .. 3,
        at \in {<<0, \h8000>>, <<0, \h0010>>, <<1, \hFFF0>>, <<0, \hFFFE>>} :
        Start(Scenario(<<opcode, d>>, 0, \h10000, at[1], at[2],
               1, 2, 3, \h01FF, 0, 0, flags, TRUE, EmptyRam))

\* XCE under every status byte, in either mode
ExchangeScenarios ==
    \E status \in 0 .. 255, emulation \in BOOLEAN :
        Start(Scenario(<<\hFB>>, 0, \h8000, 0, \h8000,
               \h1234, \h5678, \h9ABC, \h01FF, \h0DEF, \h7E,
               status, emulation, RamPattern))

\* every pull of a register (PLA, PLX, PLY, PLD, PLB), in each width mode,
\* over stack bytes whose bit 7 and bit 15 differ, and over zeroes
PullRegisterOpcodes == {\h68, \hFA, \h7A, \h2B, \hAB}

PullScenarios ==
    \E opcode \in PullRegisterOpcodes, sp \in {\h0005, \h000F, \h0011, \h0012},
       mode \in Modes, flags \in {\h00, \h83} :
        Start(Scenario(<<opcode>>, 0, \h8000, 0, \h8000,
               \h5555, \h5555, \h5555, sp, \h5555, \h55,
               BitOr(mode[2], flags), mode[1], RamPattern))

\* ASL A on every low byte of A under two high bytes, with X and Y zero and
\* non-zero, in each width mode
ShiftScenarios ==
    \E lo \in 0 .. 255, hi \in {\h00, \h12}, xv \in {0, 2}, yv \in {0, 3},
       mode \in WidthModes, flags \in {\h00, \h83} :
        Start(Scenario(<<\h0A>>, 0, \h8000, 0, \h8000,
               lo + 256 * hi, xv, yv, \h01FF, 0, 0,
               BitOr(mode[2], flags), mode[1], EmptyRam))

\* REP and SEP in either mode: every mask over the status bytes of
\* FlagPatterns, and every status byte under the masks of FlagPatterns
FlagPatterns == {\h00, \hFF, \h30, \h55, \hAA}

FlagMaskScenarios ==
    \E opcode \in {\hC2, \hE2}, emulation \in BOOLEAN,
       pair \in ((0 .. 255) \X FlagPatterns) \cup (FlagPatterns \X (0 .. 255)) :
        Start(Scenario(<<opcode, pair[1]>>, 0, \h10000, \h01, \h8000,
               \h1234, \h5678, \h9ABC, \h01FF, \h0DEF, \h7E,
               pair[2], emulation, RamPattern))

InitAlu ==
    /\ \/ LoadScenarios
       \/ CompareScenarios
       \/ AddScenarios
       \/ BranchScenarios
       \/ ExchangeScenarios
       \/ PullScenarios
       \/ ShiftScenarios
       \/ FlagMaskScenarios
    /\ overflow_checks \in BOOLEAN
    /\ fault = "none"
    /\ snapshots = <<>>
    /\ mainpc = "exited"
    /\ nticks = 0
    /\ trace = <<>>
    /\ Untouched

SpecAlu == InitAlu /\ [][Next]_vars

(***************************************************************************)
(* The instructions with an operand in memory: every absolute, long,      *)
(* indexed and direct-page arm of Cpu::tick, with the bank registers, D    *)
(* and X chosen so that the sums of the address expressions pass 0xFFFF.   *)
(***************************************************************************)
\* LDA, CMP, ADC, INC, LDX, LDY, STA, STX, STY and STZ with a memory operand
MemoryOpcodes ==
    {\hAD, \hA5, \hA7, \hBD, \hBF, \hCD, \hC5, \hDF, \hA6, \hA4, \h6D, \h65, \hE6,
     \h8D, \h85, \h9D, \h9F, \h95, \h8E, \h86, \h84, \h9C, \h64, \h9E, \h74}

\* the operand bytes: a RAM offset, the last offset of a bank, and long
\* addresses in the last RAM-mirroring bank, in work RAM and in ROM
MemoryOperands ==
    {<<\h10, \h00, \h00>>, <<\hFF, \hFF, \h00>>, <<\h10, \h00, \h3F>>,
     <<\hFE, \h1F, \h7E>>, <<\h00, \h80, \h01>>}

IndexValues == {\h0000, \h0002, \h00FF, \h8001}
DirectPages == {\h0000, \h1F00, \hFFFF}
DataBanks   == {\h00, \h01, \h3F, \h7E}

AddressScenarios ==
    \E opcode \in MemoryOpcodes, w \in MemoryOperands, xv \in IndexValues,
       d \in DirectPages, db \in DataBanks, mode \in WidthModes :
        Start(Scenario(<<opcode, w[1], w[2], w[3]>>, 0, \h10000, 0, \h8000,
               \h1234, xv, \h5678, \h01FF, d, db,
               mode[2], mode[1], RamPattern))

InitAddr ==
    /\ AddressScenarios
    /\ overflow_checks \in BOOLEAN
    /\ fault = "none"
    /\ snapshots = <<>>
    /\ mainpc = "exited"
    /\ nticks = 0
    /\ trace = <<>>
    /\ Untouched

SpecAddr == InitAddr /\ [][Next]_vars

(***************************************************************************)
(* The BlockMoveNext arm of Cpu::tick, one iteration of its `while` loop   *)
(* at a time: the tick decodes the instruction and sets the data bank,     *)
(* runs the loop body while A is not 0xFFFF, and returns.                  *)
(***************************************************************************)
\* a variant in which the counter goes down by two
BlockMoveIteration_ByTwo(c, src) ==
    LET value == read_u8(c.mmu, bank_addr(src, c.cpu.x))
    IN  IF value < 0 THEN Panic(c, value)
        ELSE [c EXCEPT !.mmu = store_u8(@, bank_addr(c.cpu.data_bank, c.cpu.y), value),
                       !.cpu.a = (@ - 2) % U16,
                       !.cpu.x = (@ + 1) % U16,
                       !.cpu.y = (@ + 1) % U16,
                       !.moved = @ + 1]

\* the body of the loop: one byte is read and stored, A, X and Y move on
BlockMoveIteration(c, src) ==
    LET value == read_u8(c.mmu, bank_addr(src, c.cpu.x))
    IN  IF value < 0 THEN Panic(c, value)
        ELSE [c EXCEPT !.mmu = store_u8(@, bank_addr(c.cpu.data_bank, c.cpu.y), value),
                       !.cpu.a = (@ - 1) % U16,
                       !.cpu.x = (@ + 1) % U16,
                       !.cpu.y = (@ + 1) % U16,
                       !.moved = @ + 1]

\* the tick has fetched the instruction c.val and stands before the loop
BlockMoveEntered(c) ==
    /\ c.fault = "none"
    /\ c.val.op = "BlockMoveNext"
    /\ cpu' = [c.cpu EXCEPT !.data_bank = c.val.arg]
    /\ tickat' = [pc |-> "while", inst |-> c.val]

BlockMoveEnter ==
    /\ tickat.pc = "idle"
    /\ fault = "none"
    /\ nticks = 0
    /\ BlockMoveEntered(fetch(Ctx(cpu, mmu)))
    /\ trace' = Append(trace, [cpu |-> cpu, mmu |-> mmu])
    /\ UNCHANGED <<mmu, overflow_checks, fault, snapshots, mainpc, nticks, call, ret,
                   stores, moved, ncalls, ea>>

\* the loop body has run and left c
BlockMoveIterated(c) ==
    /\ fault' = c.fault
    /\ cpu' = IF c.fault = "none" THEN c.cpu ELSE cpu
    /\ mmu' = IF c.fault = "none" THEN c.mmu ELSE mmu
    /\ moved' = c.moved
    /\ tickat' = IF c.fault = "none" THEN tickat ELSE [tickat EXCEPT !.pc = "panicked"]

BlockMoveIterate ==
    /\ tickat.pc = "while"
    /\ cpu.a # \hFFFF
    /\ BlockMoveIterated(BlockMoveIteration([Ctx(cpu, mmu) EXCEPT !.moved = moved],
                                            tickat.inst.arg2))
    /\ UNCHANGED <<overflow_checks, snapshots, mainpc, nticks, trace, call, ret, stores,
                   ncalls, ea>>

\* the loop test fails and tick returns
BlockMoveReturn ==
    /\ tickat.pc = "while"
    /\ cpu.a = \hFFFF
    /\ cpu' = [cpu EXCEPT !.last_instruction = tickat.inst]
    /\ tickat' = [tickat EXCEPT !.pc = "returned"]
    /\ nticks' = nticks + 1
    /\ UNCHANGED <<mmu, overflow_checks, fault, snapshots, mainpc, trace, call, ret,
                   stores, moved, ncalls, ea>>

NextBlock == BlockMoveEnter \/ BlockMoveIterate \/ BlockMoveReturn

\* counters within the bound and a longer one, from the RAM into the
\* unimplemented bank 0x7F, inside bank 0, from the ROM of bank 1 into the
\* RAM, and from the unimplemented bank; and the longest run, A = 0xFFFE,
\* inside bank 0: from the RAM up through the ROM, into the ROM window and,
\* after Y has wrapped, the RAM
BlockCounters == (0 .. MaxCount) \cup {\h00FF, \hFFFF}
BlockBankPairs == {<<\h7F, \h7E>>, <<\h00, \h00>>, <<\h7E, \h01>>, <<\h00, \h7F>>}

TerminationScenarios ==
    \/ \E a \in BlockCounters, banks \in BlockBankPairs, xv \in {\h0000, \hFFFF},
          yv \in {\h8000, \h1FFF} :
           Start(Scenario(<<\h54, banks[1], banks[2]>>, 0, \h10000, 0, \h8000,
                  a, xv, yv, \h01FF, 0, 0, 0, FALSE, RamPattern))
    \/ Start(Scenario(<<\h54, \h00, \h00>>, 0, \h10000, 0, \h8000,
             \hFFFE, \h0000, \h8000, \h01FF, 0, 0, 0, FALSE, RamPattern))

InitBlock ==
    /\ TerminationScenarios
    /\ overflow_checks \in BOOLEAN
    /\ fault = "none"
    /\ snapshots = <<>>
    /\ mainpc = "exited"
    /\ nticks = 0
    /\ trace = <<>>
    /\ Untouched

SpecBlock == InitBlock /\ [][NextBlock]_vars

\* the process runs on: a tick that stands in its loop takes the next step
\* of it, another iteration or the return
LiveSpecBlock == SpecBlock /\ WF_vars(BlockMoveIterate \/ BlockMoveReturn)

(***************************************************************************)
(* The Mmu on its own: a cartridge is loaded, and then read_u8, store_u8,  *)
(* read_u16 and store_u16 are called on it.                                *)
(***************************************************************************)
\* the banks and the offsets called: RAM and its end, the start and the end
\* of the ROM window, and for the reads the I/O scratch; banks 0x00, 0x01,
\* 0x3F, 0x7E, 0x7F
MmuBanks == {\h00, \h01, \h3F, \h7E, \h7F}
MmuOffsets == {\h0010, \h1FFF, \h8000, \hFFFF}
MmuAddrs == {bank_addr(b, o) : b \in MmuBanks, o \in MmuOffsets}
MmuReadAddrs == MmuAddrs \cup {\h002140, \h3F2143}
MmuWordAddrs == {\h001FFF, \h7E0010, \h7F0010, -1}
MmuValues == {\h11, \h22}

\* cartridges of one bank and of 64 banks; the byte at index i tells i
CartByte(i) == (i \div \h8000 + (i % \h8000) * 7 + 1) % U8
MmuCartLens == {\h8000, \h200000}
CartProbes ==
    {(o - \h8000) + b * \h8000 : b \in {\h00, \h01, \h3F}, o \in {\h8000, \hFFFF}}

MmuCartridge(len) ==
    [len |-> len, fill |-> 0,
     patch |-> [i \in {j \in CartProbes : j < len} |-> CartByte(i)]]

InitMmu ==
    /\ \E len \in MmuCartLens : mmu = MmuNew(MmuCartridge(len))
    /\ cpu = CpuNew
    /\ overflow_checks \in BOOLEAN
    /\ fault = "none"
    /\ snapshots = <<>>
    /\ mainpc = "exited"
    /\ nticks = 0
    /\ trace = <<>>
    /\ Untouched

\* a call may be made: the process is alive
MayCall == fault = "none" /\ ncalls < MaxCalls

\* the result of a read: the value, or the panic
Returned(v) ==
    /\ ret' = IF v < 0 THEN 0 ELSE v
    /\ fault' = IF v < 0 THEN FaultName(v) ELSE "none"

\* mmu.read_u8(addr)
MmuReadU8 ==
    /\ MayCall
    /\ \E addr \in MmuReadAddrs :
         /\ call' = [fn |-> "read_u8", addr |-> addr, value |-> 0]
         /\ Returned(read_u8(mmu, addr))
    /\ ncalls' = ncalls + 1
    /\ UNCHANGED <<cpu, mmu, overflow_checks, tickat, snapshots, mainpc, nticks, trace, stores,
                   moved, ea>>

\* mmu.store_u8(addr, value)
MmuStoreU8 ==
    /\ MayCall
    /\ \E addr \in MmuAddrs, value \in MmuValues :
         /\ call' = [fn |-> "store_u8", addr |-> addr, value |-> value]
         /\ mmu' = store_u8(mmu, addr, value)
         /\ stores' = Append(stores, <<addr, value>>)
    /\ ret' = 0
    /\ ncalls' = ncalls + 1
    /\ UNCHANGED <<cpu, overflow_checks, tickat, fault, snapshots, mainpc, nticks, trace, moved,
                   ea>>

\* mmu.read_u16(addr)
MmuReadU16 ==
    /\ MayCall
    /\ \E addr \in MmuWordAddrs :
         /\ call' = [fn |-> "read_u16", addr |-> addr, value |-> 0]
         /\ Returned(read_u16(mmu, addr))
    /\ ncalls' = ncalls + 1
    /\ UNCHANGED <<cpu, mmu, overflow_checks, tickat, snapshots, mainpc, nticks, trace, stores,
                   moved, ea>>

\* mmu.store_u16(addr, value): the first byte is stored before `addr + 1`
\* is computed
MmuStoreU16 ==
    /\ MayCall
    /\ \E addr \in MmuWordAddrs, value \in {\h2211} :
         LET st    == store_u16(mmu, addr, value)
             bytes == to_le_bytes(value)
         IN  /\ call' = [fn |-> "store_u16", addr |-> addr, value |-> value]
             /\ mmu' = st.mmu
             /\ fault' = st.fault
             /\ stores' = IF st.fault = "none"
                          THEN stores \o <<<<addr, bytes[1]>>, <<addr + 1, bytes[2]>>>>
                          ELSE Append(stores, <<addr, bytes[1]>>)
    /\ ret' = 0
    /\ ncalls' = ncalls + 1
    /\ UNCHANGED <<cpu, overflow_checks, tickat, snapshots, mainpc, nticks, trace, moved, ea>>

NextMmu == MmuReadU8 \/ MmuStoreU8 \/ MmuReadU16 \/ MmuStoreU16

SpecMmu == InitMmu /\ [][NextMmu]_vars

(***************************************************************************)
(* The Mmu on its own, called on the I/O window: the scratch registers,    *)
(* the placeholder offsets around them, and the words and long words that  *)
(* cross from one window into the next.                                    *)
(***************************************************************************)
\* the scratch registers through three banks, placeholder offsets, the ROM
\* window, RAM (bank 0x7E is RAM at the offsets of the scratch registers
\* too) and banks that are not implemented
IoAddrs ==
    {\h002140, \h002143, \h3F2140, \h012141,
     \h002000, \h00213F, \h002144, \h3F7FFF, \h014200,
     \h008000, \h001FFF, \h7E2140, \h7F2140, \h400000}

\* words inside the RAM and the scratch registers, and across the ends of
\* the RAM, of the scratch registers and of bank 0x7E
IoWordAddrs ==
    {\h000010, \h7E0010, \h002140, \h3F2142, \h001FFF, \h00213F, \h002143, \h7EFFFF}

IoValues == {\h11, \h22}
IoWords  == {\h2211, \h00FF}

\* a call is made: it is counted, and the Mmu and the call before it are kept
Calling(fn, addr, value) ==
    /\ call' = [fn |-> fn, addr |-> addr, value |-> value]
    /\ ncalls' = ncalls + 1
    /\ trace' = Append(trace, [cpu |-> cpu, mmu |-> mmu, call |-> call])

\* mmu.store_u8(addr, value)
IoStoreU8 ==
    /\ MayCall
    /\ \E addr \in IoAddrs, value \in IoValues :
         /\ Calling("store_u8", addr, value)
         /\ mmu' = store_u8(mmu, addr, value)
         /\ stores' = Append(stores, <<addr, value>>)
    /\ ret' = 0
    /\ UNCHANGED <<cpu, overflow_checks, tickat, fault, snapshots, mainpc, nticks, moved, ea>>

\* mmu.read_u8(addr)
IoReadU8 ==
    /\ MayCall
    /\ \E addr \in IoAddrs :
         /\ Calling("read_u8", addr, 0)
         /\ Returned(read_u8(mmu, addr))
    /\ UNCHANGED <<cpu, mmu, overflow_checks, tickat, snapshots, mainpc, nticks, stores,
                   moved, ea>>

\* mmu.read_u16(addr)
IoReadU16 ==
    /\ MayCall
    /\ \E addr \in IoWordAddrs :
         /\ Calling("read_u16", addr, 0)
         /\ Returned(read_u16(mmu, addr))
    /\ UNCHANGED <<cpu, mmu, overflow_checks, tickat, snapshots, mainpc, nticks, stores,
                   moved, ea>>

\* mmu.read_long(addr)
IoReadLong ==
    /\ MayCall
    /\ \E addr \in IoWordAddrs :
         /\ Calling("read_long", addr, 0)
         /\ Returned(read_long(mmu, addr))
    /\ UNCHANGED <<cpu, mmu, overflow_checks, tickat, snapshots, mainpc, nticks, stores,
                   moved, ea>>

\* mmu.store_u16(addr, value)
IoStoreU16 ==
    /\ MayCall
    /\ \E addr \in IoWordAddrs, value \in IoWords :
         LET st    == store_u16(mmu, addr, value)
             bytes == to_le_bytes(value)
         IN  /\ Calling("store_u16", addr, value)
             /\ mmu' = st.mmu
             /\ fault' = st.fault
             /\ stores' = IF st.fault = "none"
                          THEN stores \o <<<<addr, bytes[1]>>, <<addr + 1, bytes[2]>>>>
                          ELSE Append(stores, <<addr, bytes[1]>>)
    /\ ret' = 0
    /\ UNCHANGED <<cpu, overflow_checks, tickat, snapshots, mainpc, nticks, moved, ea>>

NextIo == IoStoreU8 \/ IoReadU8 \/ IoReadU16 \/ IoReadLong \/ IoStoreU16

SpecIo == InitMmu /\ [][NextIo]_vars

(***************************************************************************)
(* The run loop of main.rs.                                                *)
(***************************************************************************)
\* Instruction::from_opcode, which main.rs calls and inst.rs does not hold:
\* as the specification has it, the decode table maps an opcode to its
\* Instruction variant, and an opcode absent from the table to Unknown
from_opcode(opcode) == IF opcode \in KnownOpcodes THEN "Known" ELSE "Unknown"

\* a variant in which the loop never breaks
ShouldBreak_Never(inst) == FALSE

\* `if let Instruction::Unknown = inst { break; }`
ShouldBreak(inst) == inst = "Unknown"

\* `if snapshots.len() >= 200 { pop_front }; push_back(cpu.clone())`
SnapshotCap == 200

PushSnapshot(q, r) == Append(IF Len(q) >= SnapshotCap THEN Tail(q) ELSE q, r)

\* Cpu::stack_debug: 0, or the code of the panic
stack_debug(r, m) ==
    IF r.sp = \hFFFF /\ overflow_checks THEN Overflow
    ELSE IF \E addr \in ((r.sp + 1) % U16) .. r.sp_base : read_u8(m, addr) = OutOfBounds
         THEN OutOfBounds
    ELSE 0

\* the programs run: the reset vector points at the start or at the second
\* byte of a ROM of one bank that begins with ProgramLen of these bytes, CLC,
\* INX, DEX, PHA, XCE, BRA, the undefined 0x02 and 0xFF and LDA #, zeroes
\* after them
ProgramBytes == {\h18, \hE8, \hCA, \h48, \hFB, \h80, \h02, \hFF, \hA9}
ProgramLen == 3

Programs == [1 .. ProgramLen -> ProgramBytes]

ProgramCartridge(code, vector) ==
    [len |-> \h8000, fill |-> 0,
     patch |-> [i \in (0 .. ProgramLen - 1) \cup {\h7FFC, \h7FFD} |->
                   IF i = \h7FFC THEN vector % U8
                   ELSE IF i = \h7FFD THEN vector \div U8
                   ELSE code[i + 1]]]

\* main, up to the loop
InitMain ==
    /\ \E code \in Programs, vector \in {\h8000, \h8001} :
         /\ mmu = MmuNew(ProgramCartridge(code, vector))
         /\ cpu = set_current_addr(CpuNew, reset_vector(mmu))
    /\ overflow_checks \in BOOLEAN
    /\ fault = "none"
    /\ snapshots = <<>>
    /\ mainpc = "loop"
    /\ nticks = 0
    /\ trace = <<>>
    /\ Untouched

\* one iteration of the loop of main
Loop ==
    /\ mainpc = "loop"
    /\ fault = "none"
    /\ nticks < MaxLoops
    /\ snapshots' = PushSnapshot(snapshots, cpu)
    /\ LET opcode == read_u8(mmu, current_addr(cpu))
       IN  IF opcode < 0
           THEN /\ fault' = FaultName(opcode)
                /\ UNCHANGED <<cpu, mmu, mainpc, nticks, trace, moved, ea>>
           ELSE /\ Ticked(tick(Ctx(cpu, mmu)))
                /\ mainpc' = IF fault' = "none" /\ ShouldBreak(from_opcode(opcode))
                             THEN "log" ELSE "loop"
    /\ UNCHANGED <<overflow_checks, tickat, call, ret, stores, ncalls>>

\* the log: every snapshot is rendered, and the output is written
Log ==
    /\ mainpc = "log"
    /\ fault = "none"
    /\ LET bad == {i \in 1 .. Len(snapshots) :
                      \/ read_u8(mmu, current_addr(snapshots[i])) < 0
                      \/ stack_debug(snapshots[i], mmu) < 0}
       IN  IF bad = {}
           THEN mainpc' = "exited" /\ fault' = "none"
           ELSE /\ mainpc' = "log"
                /\ LET i == CHOOSE j \in bad : \A k \in bad : j <= k
                        v == read_u8(mmu, current_addr(snapshots[i]))
                   IN  fault' = FaultName(IF v < 0 THEN v
                                          ELSE stack_debug(snapshots[i], mmu))
    /\ UNCHANGED <<cpu, mmu, overflow_checks, tickat, snapshots, nticks, trace, call, ret,
                   stores, moved, ncalls, ea>>

NextMain == Loop \/ Log

SpecMain == InitMain /\ [][NextMain]_vars

(***************************************************************************)
(* What the properties below speak of: the step just made, the machine     *)
(* before it and the machine before the step before it.                    *)
(***************************************************************************)
\* the last tick returned (it did not panic)
Stepped == nticks >= 1 /\ fault = "none"

\* the last two ticks returned
SteppedTwice == nticks >= 2 /\ fault = "none"

\* the machine before the last tick, and before the tick before it
Pre  == trace[Len(trace)]
Pre2 == trace[Len(trace) - 1]

\* the opcode byte the tick made from machine st fetches
OpcodeAt(st) == read_u8(st.mmu, current_addr(st.cpu))

\* the k-th byte after the opcode, as the decoder's fetch reads it: PC has
\* wrapped inside the bank before the fetch, the fetch itself adds to the
\* 24-bit address
OperandAt(st, k) ==
    read_u8(st.mmu, bank_addr(st.cpu.program_bank, (st.cpu.pc + 1) % U16) + (k - 1))

\* registers r and q agree on every register but PC
SameRegistersButPc(r, q) ==
    /\ r.a = q.a /\ r.x = q.x /\ r.y = q.y /\ r.sp = q.sp
    /\ r.direct_page = q.direct_page
    /\ r.program_bank = q.program_bank /\ r.data_bank = q.data_bank
    /\ r.status = q.status /\ r.emulation = q.emulation

\* the bytes at sp - (n - 1) .. sp all lie in the RAM window of bank 0
StackInRam(sp, n) == sp - (n - 1) >= 0 /\ sp <= \h1FFF

(***************************************************************************)
(* C1.  As claimed: a tick that fetches an opcode byte outside the decode  *)
(* table decodes Unknown and leaves every register, PC included, and every *)
(* memory cell as it was.                                                  *)
(***************************************************************************)
C1_UnknownChangesNothing ==
    (Stepped /\ OpcodeAt(Pre) \notin KnownOpcodes) =>
        /\ cpu.last_instruction = InstUnknown
        /\ SameRegistersButPc(cpu, Pre.cpu)
        /\ cpu.pc = Pre.cpu.pc
        /\ mmu = Pre.mmu

(***************************************************************************)
(* C1, amended.  A tick that fetches an opcode byte outside the decode     *)
(* table and returns decodes Unknown, leaves every register but PC and     *)
(* every memory cell as it was, and leaves PC one past the opcode byte,    *)
(* modulo 2^16.                                                            *)
(***************************************************************************)
C1_UnknownOnlyAdvancesPc ==
    (Stepped /\ OpcodeAt(Pre) \notin KnownOpcodes) =>
        /\ cpu.last_instruction = InstUnknown
        /\ SameRegistersButPc(cpu, Pre.cpu)
        /\ cpu.pc = (Pre.cpu.pc + 1) % U16
        /\ mmu = Pre.mmu

\* an Unknown step at the end of the bank, in the build that wraps
C1_Witness ==
    /\ Stepped
    /\ OpcodeAt(Pre) \notin KnownOpcodes
    /\ Pre.cpu.pc = \hFFFF
    /\ cpu.pc = 0
    /\ ~Pre.cpu.emulation

(***************************************************************************)
(* C3.  A push step followed at once by the matching pull step, with the   *)
(* stack bytes in the RAM window of bank 0, ends with the register         *)
(* holding the pushed value at the pushed width and with SP as it was      *)
(* before the push: A, X, Y at the width of the mode, D at 16 bits, the    *)
(* data bank at 8 bits.                                                    *)
(***************************************************************************)
\* the push of `pushed` and the pull of `pulled` just ran, in this order
PushThenPull(pushed, pulled) ==
    /\ SteppedTwice
    /\ Pre.cpu.last_instruction.op = pushed
    /\ cpu.last_instruction.op = pulled

\* register reg came back, at 8 bits when `eight` and at 16 bits otherwise
RoundTrip(reg, eight) ==
    /\ StackInRam(Pre2.cpu.sp, IF eight THEN 1 ELSE 2) =>
           /\ cpu.sp = Pre2.cpu.sp
           /\ IF eight THEN cpu[reg] % U8 = Pre2.cpu[reg] % U8
                       ELSE cpu[reg] = Pre2.cpu[reg]

C3_PushPullRoundTrip ==
    /\ PushThenPull("PushA", "PullA") =>
           RoundTrip("a", Pre2.cpu.emulation \/ contains(Pre2.cpu.status, MEMORY_SELECT))
    /\ PushThenPull("PushX", "PullX") =>
           RoundTrip("x", Pre2.cpu.emulation \/ contains(Pre2.cpu.status, INDEX_REGISTER))
    /\ PushThenPull("PushY", "PullY") =>
           RoundTrip("y", Pre2.cpu.emulation \/ contains(Pre2.cpu.status, INDEX_REGISTER))
    /\ PushThenPull("PushD", "PullD") => RoundTrip("direct_page", FALSE)
    /\ PushThenPull("PushB", "PullB") => RoundTrip("data_bank", TRUE)

\* a 16-bit PHA, PLA of a value with both bytes non-zero, and an 8-bit PHB,
\* PLB are both among the runs: here the first
C3_Witness ==
    /\ PushThenPull("PushA", "PullA")
    /\ ~Pre2.cpu.emulation /\ ~contains(Pre2.cpu.status, MEMORY_SELECT)
    /\ Pre2.cpu.a = \h1280
    /\ Pre2.cpu.sp = \h1FFF
    /\ cpu.a = \h1280 /\ cpu.sp = \h1FFF

(***************************************************************************)
(* C4.  As claimed: PushStatus followed at once by PullStatus, with the    *)
(* stack byte in RAM, leaves the status register and SP as they were       *)
(* before the push, for every status byte.                                 *)
(***************************************************************************)
C4_StatusRoundTrip ==
    (PushThenPull("PushStatus", "PullStatus") /\ StackInRam(Pre2.cpu.sp, 1)) =>
        /\ cpu.status = Pre2.cpu.status
        /\ cpu.sp = Pre2.cpu.sp

(***************************************************************************)
(* C5.  JSR pushes the PC after its operand fetch, less one, and an RTS    *)
(* that finds these two bytes at the same SP leaves PC at the instruction  *)
(* after the JSR; JSL pushes the program bank as well and the matching RTL *)
(* restores the bank and the PC after the JSL.  SP returns to its value    *)
(* before the call.                                                        *)
(***************************************************************************)
\* the return address a call at `r` with n operand bytes pushes
ReturnAddress(r, n) == (r.pc + 1 + n - 1) % U16

C5_CallReturnRoundTrip ==
    \* JSR pushes PC - 1, low byte below high byte, and moves SP down by two
    /\ (Stepped /\ cpu.last_instruction.op = "JumpSubRoutineAbsolute"
            /\ StackInRam(Pre.cpu.sp, 2)) =>
           /\ read_u16(mmu, Pre.cpu.sp - 1) = ReturnAddress(Pre.cpu, 2)
           /\ cpu.sp = (Pre.cpu.sp - 2) % U16
           /\ cpu.pc = cpu.last_instruction.arg
    \* RTS pops a word and adds one back
    /\ (Stepped /\ cpu.last_instruction.op = "Return" /\ Pre.cpu.sp + 2 <= \h1FFF) =>
           /\ cpu.pc = (read_u16(Pre.mmu, Pre.cpu.sp + 1) + 1) % U16
           /\ cpu.sp = Pre.cpu.sp + 2
    \* the round trips
    /\ (PushThenPull("JumpSubRoutineAbsolute", "Return")
            /\ StackInRam(Pre2.cpu.sp, 2)) =>
           /\ cpu.pc = (Pre2.cpu.pc + 3) % U16
           /\ cpu.program_bank = Pre2.cpu.program_bank
           /\ cpu.sp = Pre2.cpu.sp
    /\ (PushThenPull("JumpSubRoutineAbsoluteLong", "ReturnLong")
            /\ StackInRam(Pre2.cpu.sp, 3)) =>
           /\ Pre.cpu.program_bank = Pre.cpu.last_instruction.arg
           /\ cpu.pc = (Pre2.cpu.pc + 4) % U16
           /\ cpu.program_bank = Pre2.cpu.program_bank
           /\ cpu.sp = Pre2.cpu.sp

\* a JSL from bank 1 into bank 0 and the RTL back
C5_Witness ==
    /\ PushThenPull("JumpSubRoutineAbsoluteLong", "ReturnLong")
    /\ Pre2.cpu.program_bank = 1 /\ Pre2.cpu.pc = \h8ABC
    /\ Pre.cpu.program_bank = 0
    /\ Pre2.cpu.sp = \h01FF
    /\ cpu.program_bank = 1 /\ cpu.pc = \h8AC0 /\ cpu.sp = \h01FF

(***************************************************************************)
(* C6.  As claimed: for every counter A = n in 0..0xFFFF a BlockMoveNext   *)
(* (dest, src) step copies exactly n + 1 bytes, byte i from (src, X + i)   *)
(* to (dest, Y + i), and ends with A = 0xFFFF, X and Y advanced by n + 1   *)
(* modulo 2^16 and the data bank equal to dest.                            *)
(***************************************************************************)
\* memory m after k bytes were copied one by one, in ascending order
RECURSIVE CopyBytes(_, _, _, _, _, _)
CopyBytes(m, dest, src, x, y, k) ==
    IF k = 0 THEN m
    ELSE CopyBytes(store_u8(m, bank_addr(dest, y), read_u8(m, bank_addr(src, x))),
                   dest, src, (x + 1) % U16, (y + 1) % U16, k - 1)

\* the step just made is a block move that did what is claimed for count n
BlockMoveCopied(n) ==
    /\ cpu.a = \hFFFF
    /\ cpu.x = (Pre.cpu.x + n + 1) % U16
    /\ cpu.y = (Pre.cpu.y + n + 1) % U16
    /\ cpu.data_bank = cpu.last_instruction.arg
    /\ moved = n + 1
    /\ mmu = CopyBytes(Pre.mmu, cpu.last_instruction.arg, cpu.last_instruction.arg2,
                       Pre.cpu.x, Pre.cpu.y, n + 1)

C6_BlockMoveCopiesCountPlusOne ==
    (Stepped /\ cpu.last_instruction.op = "BlockMoveNext") => BlockMoveCopied(Pre.cpu.a)

\* what the code does do: the claim holds of every counter but 0xFFFF
C6_HoldsBelowFFFF ==
    (Stepped /\ cpu.last_instruction.op = "BlockMoveNext" /\ Pre.cpu.a # \hFFFF) =>
        BlockMoveCopied(Pre.cpu.a)

(***************************************************************************)
(* C10.  The decoder fetches one operand byte for 0x69 (ADC #), 0xA9 (LDA  *)
(* #) and 0xC9 (CMP #) when emulation or MemorySelect is set, so that PC   *)
(* advances by 2, and two operand bytes otherwise, so that PC advances by  *)
(* 3; the same holds of 0xA0 (LDY #), 0xA2 (LDX #) and 0xE0 (CPX #) with   *)
(* IndexRegisterWidth.  The Instruction carries the operand at that width. *)
(***************************************************************************)
ImmediateOpcodes ==
    {<<\h69, "AddWithCarryImmediate", MEMORY_SELECT>>,
     <<\hA9, "LoadAImmediate", MEMORY_SELECT>>,
     <<\hC9, "CompareImmediate", MEMORY_SELECT>>,
     <<\hA0, "LoadYImmediate", INDEX_REGISTER>>,
     <<\hA2, "LoadXImmediate", INDEX_REGISTER>>,
     <<\hE0, "CompareXImmediate", INDEX_REGISTER>>}

C10_ImmediateOperandWidth ==
    \A t \in ImmediateOpcodes :
        (Stepped /\ OpcodeAt(Pre) = t[1]) =>
            IF Pre.cpu.emulation \/ contains(Pre.cpu.status, t[3])
            THEN /\ cpu.last_instruction = Inst(t[2], 8, OperandAt(Pre, 1), 0)
                 /\ cpu.pc = (Pre.cpu.pc + 2) % U16
            ELSE /\ cpu.last_instruction =
                        Inst(t[2], 16, OperandAt(Pre, 1) + 256 * OperandAt(Pre, 2), 0)
                 /\ cpu.pc = (Pre.cpu.pc + 3) % U16

\* 0xA9 0x42 in native mode with MemorySelect set is LoadAImmediate(U8(0x42))
C10_Witness ==
    /\ Stepped
    /\ OpcodeAt(Pre) = \hA9
    /\ ~Pre.cpu.emulation /\ contains(Pre.cpu.status, MEMORY_SELECT)
    /\ cpu.last_instruction = Inst("LoadAImmediate", 8, \h42, 0)
    /\ cpu.pc = Pre.cpu.pc + 2

(***************************************************************************)
(* C2.  In the run loop no call of tick follows a tick that decoded        *)
(* Unknown: once the last tick has returned with Unknown as the decoded    *)
(* instruction, the number of ticks never grows again.                     *)
(***************************************************************************)
C2_NoTickAfterUnknown ==
    [][(nticks > 0 /\ fault = "none" /\ cpu.last_instruction.op = "Unknown") =>
           nticks' = nticks]_vars

\* the loop has run an instruction of the table, then an Unknown one, and
\* has left for the log
C2_Witness ==
    /\ nticks >= 2
    /\ fault = "none"
    /\ OpcodeAt(Pre2) \in KnownOpcodes
    /\ OpcodeAt(Pre) \notin KnownOpcodes
    /\ cpu.last_instruction.op = "Unknown"
    /\ mainpc \in {"log", "exited"}
    /\ nticks < MaxLoops

(***************************************************************************)
(* C7.  read_u8 of offset o in 0x8000..0xFFFF of a bank b in 0x00..0x3F    *)
(* returns the cartridge byte at index (o - 0x8000) + b * 0x8000; where    *)
(* the cartridge is shorter than that the indexing panics.                 *)
(***************************************************************************)
BankOf(addr) == AsU8(addr \div 65536)
OffsetOf(addr) == addr % 65536

C7_RomMapping ==
    (call.fn = "read_u8" /\ BankOf(call.addr) <= \h3F /\ OffsetOf(call.addr) >= \h8000) =>
        LET i == (OffsetOf(call.addr) - \h8000) + BankOf(call.addr) * \h8000
        IN  IF i < mmu.cartridge.len
            THEN fault = "none" /\ ret = CartAt(mmu.cartridge, i)
            ELSE fault = FaultName(OutOfBounds)

\* 0x018000 read the byte at cartridge offset 0x8000, which is not the byte
\* at offset 0
C7_Witness ==
    /\ call = [fn |-> "read_u8", addr |-> \h018000, value |-> 0]
    /\ fault = "none"
    /\ ret = CartByte(\h8000)
    /\ ret # CartByte(0)
    /\ read_u8(mmu, \h008000) = CartByte(0)

(***************************************************************************)
(* C8.  After any sequence of stores, the reads of offset o in             *)
(* 0x0000..0x1FFF through the banks 0x00..0x3F and through bank 0x7E all   *)
(* return the value of the most recent store_u8 to one of these addresses, *)
(* 0 if there was none.  (The stores made here touch the offsets of        *)
(* RamProbes only.)                                                        *)
(***************************************************************************)
RamBanks == (\h00 .. \h3F) \cup {\h7E}
RamProbes == {\h0000, \h0010, \h0011, \h1FFF}
RamProbeBanks == {\h00, \h01, \h20, \h3F, \h7E}

\* the value of the last store of the log to offset o through a RAM bank
LastStored(o) ==
    LET hits == {k \in 1 .. Len(stores) :
                    BankOf(stores[k][1]) \in RamBanks /\ OffsetOf(stores[k][1]) = o}
    IN  IF hits = {} THEN 0
        ELSE stores[CHOOSE k \in hits : \A j \in hits : j <= k][2]

C8_RamAliases ==
    /\ \A o \in RamProbes, b \in RamProbeBanks :
           read_u8(mmu, bank_addr(b, o)) = LastStored(o)
    /\ (/\ call.fn = "read_u8" /\ fault = "none"
        /\ BankOf(call.addr) \in RamBanks /\ OffsetOf(call.addr) <= \h1FFF) =>
           ret = LastStored(OffsetOf(call.addr))

\* after a store through bank 0x7E and a later one through bank 0x01, bank
\* 0x3F reads the later value
C8_Witness ==
    /\ stores = <<<<\h7E0010, \h11>>, <<\h010010, \h22>>>>
    /\ read_u8(mmu, \h3F0010) = \h22
    /\ read_u8(mmu, \h7E0010) = \h22

(***************************************************************************)
(* C9.  As claimed: every read_u8 and every store_u8 of an address whose   *)
(* bank is neither in 0x00..0x3F nor 0x7E panics.                          *)
(***************************************************************************)
C9_UnimplementedBankFailsLoudly ==
    (call.fn \in {"read_u8", "store_u8"} /\ BankOf(call.addr) \notin RamBanks) =>
        fault # "none"

\* what the code does do: the reads panic, and the stores return
C9_ReadsPanicStoresReturn ==
    (call.fn \in {"read_u8", "store_u8"} /\ BankOf(call.addr) \notin RamBanks) =>
        IF call.fn = "read_u8" THEN fault = FaultName(Unimplemented) ELSE fault = "none"

(***************************************************************************)
(* C11.  After an 8-bit load of v (LDA #, LDX #, LDY # with a one-byte     *)
(* operand) the target register equals v, Zero is set iff v = 0 and        *)
(* Negative iff bit 7 of v is 1; after a 16-bit load of v the same holds   *)
(* with bit 15; no other status bit changes.                               *)
(***************************************************************************)
ImmediateLoads == {<<\hA9, "a">>, <<\hA2, "x">>, <<\hA0, "y">>}

\* the operand of the immediate instruction at st, at `width` bits
ImmediateAt(st, width) ==
    IF width = 8 THEN OperandAt(st, 1) ELSE OperandAt(st, 1) + 256 * OperandAt(st, 2)

\* status bits other than those of mask are as they were before the step
OtherFlagsKept(mask) == BitAnd(cpu.status, Not8(mask)) = BitAnd(Pre.cpu.status, Not8(mask))

C11_LoadFlags ==
    \A t \in ImmediateLoads :
        (Stepped /\ OpcodeAt(Pre) = t[1]) =>
            LET width == cpu.last_instruction.width
                v     == ImmediateAt(Pre, width)
            IN  /\ width \in {8, 16}
                /\ cpu[t[2]] = v
                /\ contains(cpu.status, ZERO) <=> v = 0
                /\ contains(cpu.status, NEGATIVE) <=> Bit(v, width - 1) = 1
                /\ OtherFlagsKept(BitOr(ZERO, NEGATIVE))

\* LDA #$80 at 8 bits, entered with Zero and Carry set: Zero is cleared,
\* Negative is set, Carry stays
C11_Witness ==
    /\ Stepped
    /\ OpcodeAt(Pre) = \hA9
    /\ cpu.last_instruction = Inst("LoadAImmediate", 8, \h80, 0)
    /\ contains(Pre.cpu.status, ZERO) /\ contains(Pre.cpu.status, CARRY)
    /\ Pre.cpu.a = \h5555
    /\ cpu.a = \h80
    /\ contains(cpu.status, NEGATIVE) /\ ~contains(cpu.status, ZERO)
    /\ contains(cpu.status, CARRY)

(***************************************************************************)
(* C12.  After CMP # and CPX #, at the operand's width, Carry is set iff   *)
(* lhs >= rhs as unsigned numbers of that width and Zero iff lhs = rhs,    *)
(* where lhs is the register truncated to the width; the register keeps    *)
(* its value.                                                              *)
(***************************************************************************)
ImmediateCompares == {<<\hC9, "a">>, <<\hE0, "x">>}

Modulus(width) == IF width = 8 THEN U8 ELSE U16

C12_CompareFlags ==
    \A t \in ImmediateCompares :
        (Stepped /\ OpcodeAt(Pre) = t[1]) =>
            LET width == cpu.last_instruction.width
                rhs   == ImmediateAt(Pre, width)
                lhs   == Pre.cpu[t[2]] % Modulus(width)
            IN  /\ width \in {8, 16}
                /\ contains(cpu.status, CARRY) <=> lhs >= rhs
                /\ contains(cpu.status, ZERO) <=> lhs = rhs
                /\ cpu[t[2]] = Pre.cpu[t[2]]

\* CMP #$34 at 8 bits against A = 0x1234, entered with Carry and Zero clear:
\* the low byte is what is compared
C12_Witness ==
    /\ Stepped
    /\ OpcodeAt(Pre) = \hC9
    /\ cpu.last_instruction = Inst("CompareImmediate", 8, \h34, 0)
    /\ Pre.cpu.a = \h1234
    /\ ~contains(Pre.cpu.status, CARRY) /\ ~contains(Pre.cpu.status, ZERO)
    /\ contains(cpu.status, CARRY) /\ contains(cpu.status, ZERO)
    /\ cpu.a = \h1234

(***************************************************************************)
(* C13.  After an add-with-carry the accumulator holds (A + operand +      *)
(* Carry-in) wrapped to the operation width, Carry is set iff that result  *)
(* is less than the accumulator before the step at that width, and Zero    *)
(* iff the result is 0.                                                    *)
(***************************************************************************)
AddOpcodes == {\h69, \h6D, \h65}

C13_AddWithCarry ==
    (Stepped /\ OpcodeAt(Pre) \in AddOpcodes) =>
        LET immediate == OpcodeAt(Pre) = \h69
            width     == IF immediate THEN cpu.last_instruction.width
                         ELSE IF Is8Bit(Pre.cpu, MEMORY_SELECT) THEN 8 ELSE 16
            operand   == IF immediate THEN ImmediateAt(Pre, width)
                         ELSE IF width = 8 THEN read_u8(Pre.mmu, ea[1])
                         ELSE read_u16(Pre.mmu, ea[1])
            carry     == IF contains(Pre.cpu.status, CARRY) THEN 1 ELSE 0
            before    == Pre.cpu.a % Modulus(width)
            result    == (Pre.cpu.a + operand + carry) % Modulus(width)
        IN  /\ cpu.a % Modulus(width) = result
            /\ contains(cpu.status, CARRY) <=> result < before
            /\ contains(cpu.status, ZERO) <=> result = 0

\* 8-bit A = 0xFF, Carry clear, ADC #$01: result 0x00, Carry and Zero set,
\* Negative clear
C13_Witness ==
    /\ Stepped
    /\ OpcodeAt(Pre) = \h69
    /\ cpu.last_instruction = Inst("AddWithCarryImmediate", 8, \h01, 0)
    /\ Pre.cpu.a = \h00FF
    /\ ~contains(Pre.cpu.status, CARRY)
    /\ cpu.a = \h00
    /\ contains(cpu.status, CARRY) /\ contains(cpu.status, ZERO)
    /\ ~contains(cpu.status, NEGATIVE)

(***************************************************************************)
(* C14.  After a branch whose condition holds, PC is the PC past the       *)
(* operand plus the displacement byte read as a signed 8-bit number,       *)
(* modulo 2^16; after one whose condition fails, PC is just past the       *)
(* operand; the program bank is as it was.                                 *)
(***************************************************************************)
\* the byte d as a two's-complement number
Signed8(d) == IF d >= 128 THEN d - 256 ELSE d

\* the condition of the branch `opcode` under `status`
BranchCondition(opcode, status) ==
    CASE opcode = \h90 -> ~contains(status, CARRY)
      [] opcode = \hB0 -> contains(status, CARRY)
      [] opcode = \hD0 -> ~contains(status, ZERO)
      [] opcode = \hF0 -> contains(status, ZERO)
      [] opcode = \h80 -> TRUE

C14_BranchDisplacement ==
    (Stepped /\ OpcodeAt(Pre) \in BranchOpcodes) =>
        LET past == (Pre.cpu.pc + 2) % U16
            d    == OperandAt(Pre, 1)
        IN  /\ cpu.pc = IF BranchCondition(OpcodeAt(Pre), Pre.cpu.status)
                        THEN (past + Signed8(d)) % U16 ELSE past
            /\ cpu.program_bank = Pre.cpu.program_bank

\* BRA with displacement 0x80 at 0x0010: PC goes back by 128 from 0x0012,
\* below zero, to 0xFF92
C14_Witness ==
    /\ Stepped
    /\ OpcodeAt(Pre) = \h80
    /\ OperandAt(Pre, 1) = \h80
    /\ Pre.cpu.pc = \h0010
    /\ cpu.pc = \hFF92

(***************************************************************************)
(* C15.  After an XCE step the emulation flag is what Carry was before the *)
(* step and Carry is the negation of what it was; no other status bit and  *)
(* no register other than PC changes.                                      *)
(***************************************************************************)
C15_ExchangeCE ==
    (Stepped /\ OpcodeAt(Pre) = \hFB) =>
        /\ cpu.emulation = contains(Pre.cpu.status, CARRY)
        /\ contains(cpu.status, CARRY) = ~contains(Pre.cpu.status, CARRY)
        /\ OtherFlagsKept(CARRY)
        /\ cpu.a = Pre.cpu.a /\ cpu.x = Pre.cpu.x /\ cpu.y = Pre.cpu.y
        /\ cpu.sp = Pre.cpu.sp /\ cpu.direct_page = Pre.cpu.direct_page
        /\ cpu.program_bank = Pre.cpu.program_bank
        /\ cpu.data_bank = Pre.cpu.data_bank

\* XCE in emulation with Carry clear and every other flag set: native mode,
\* Carry set, 16-bit X kept
C15_Witness ==
    /\ Stepped
    /\ OpcodeAt(Pre) = \hFB
    /\ Pre.cpu.emulation /\ Pre.cpu.status = \hFE
    /\ ~cpu.emulation /\ cpu.status = \hFF
    /\ cpu.x = \h5678


(***************************************************************************)
(* Operands in memory.                                                     *)
(***************************************************************************)
\* the loads into A and the compares against A that read memory
AccumulatorLoadOpcodes    == {\hAD, \hA5, \hA7, \hBD, \hBF}
AccumulatorCompareOpcodes == {\hCD, \hC5, \hDF}

\* the address the arm of the last tick passed to the Mmu for its operand
\* (the last one: the [direct page] form reads its pointer first)
OperandAddress == ea[Len(ea)]

\* the operand at addr before the step, read at the given width
OperandOfWidth(width, addr) ==
    IF width = 8 THEN read_u8(Pre.mmu, addr) ELSE read_u16(Pre.mmu, addr)

\* C16: a load into A or a compare against A with a memory operand reads an
\* 8-bit operand when emulation or MemorySelect is set, and a 16-bit
\* little-endian operand when both are clear: the load leaves it in A, the
\* compare sets Carry and Zero from A against it.
C16_AccumulatorOperandWidth ==
    (Stepped /\ ea # <<>>
        /\ OpcodeAt(Pre) \in AccumulatorLoadOpcodes \cup AccumulatorCompareOpcodes) =>
        LET width   == IF Is8Bit(Pre.cpu, MEMORY_SELECT) THEN 8 ELSE 16
            operand == OperandOfWidth(width, OperandAddress)
            lhs     == Pre.cpu.a % Modulus(width)
        IN  operand >= 0 =>
                IF OpcodeAt(Pre) \in AccumulatorLoadOpcodes
                THEN cpu.a % Modulus(width) = operand
                ELSE /\ contains(cpu.status, CARRY) <=> lhs >= operand
                     /\ contains(cpu.status, ZERO) <=> lhs = operand

\* what the arms do: the operand is one byte in every mode; the load puts it
\* in A with a zero high byte, the compare sets Carry and Zero from the low
\* byte of A against it
C16_OperandAlwaysOneByte ==
    (Stepped /\ ea # <<>>
        /\ OpcodeAt(Pre) \in AccumulatorLoadOpcodes \cup AccumulatorCompareOpcodes) =>
        LET operand == read_u8(Pre.mmu, OperandAddress)
            lhs     == Pre.cpu.a % U8
        IN  IF OpcodeAt(Pre) \in AccumulatorLoadOpcodes
            THEN cpu.a = operand
            ELSE /\ contains(cpu.status, CARRY) <=> lhs >= operand
                 /\ contains(cpu.status, ZERO) <=> lhs = operand

\* native mode with MemorySelect clear, LDA $0010 over the bytes 0x71, 0x78:
\* A ends as 0x0071
C16_OneByteIn16BitMode ==
    /\ Stepped /\ OpcodeAt(Pre) = \hAD
    /\ ~Pre.cpu.emulation /\ ~contains(Pre.cpu.status, MEMORY_SELECT)
    /\ OperandAddress = \h000010
    /\ read_u16(Pre.mmu, \h000010) = \h7871
    /\ cpu.a = \h0071


(***************************************************************************)
(* The width of the index registers.                                       *)
(***************************************************************************)
\* C17: in every state the run reaches from Cpu::new, if emulation is set or
\* IndexRegisterWidth is set then X and Y are at most 0xFF.
C17_IndexRegistersEightBit ==
    Is8Bit(cpu, INDEX_REGISTER) => cpu.x <= \hFF /\ cpu.y <= \hFF

\* from Cpu::new, in emulation mode with X = 0, one DEX leaves X = 0xFFFF
C17_DecrementWrapsAt16Bits ==
    /\ nticks >= 1 /\ fault = "none"
    /\ Pre.cpu.emulation /\ Pre.cpu.x = 0
    /\ cpu.last_instruction.op = "DecrementX"
    /\ cpu.emulation /\ cpu.x = \hFFFF


(***************************************************************************)
(* The stores of A, X and Y.                                               *)
(***************************************************************************)
\* each store opcode with the register stored and the flag of its width
StoreArms ==
    {<<\h8D, "a", MEMORY_SELECT>>, <<\h85, "a", MEMORY_SELECT>>,
     <<\h9D, "a", MEMORY_SELECT>>, <<\h9F, "a", MEMORY_SELECT>>,
     <<\h95, "a", MEMORY_SELECT>>,
     <<\h8E, "x", INDEX_REGISTER>>, <<\h86, "x", INDEX_REGISTER>>,
     <<\h84, "y", INDEX_REGISTER>>}

\* memories m and n read the same at addr and at addr + 1
SameBytesAt(m, n, addr) ==
    /\ read_u8(m, addr) = read_u8(n, addr)
    /\ read_u8(m, addr + 1) = read_u8(n, addr + 1)

\* C18: in 8-bit mode (emulation, or MemorySelect for STA, IndexRegisterWidth
\* for STX and STY) a store writes only the register's low byte at the
\* effective address and leaves the byte after it as it was; in 16-bit mode
\* it writes both bytes.
C18_StoreWidth ==
    \A t \in StoreArms :
        (Stepped /\ ea # <<>> /\ OpcodeAt(Pre) = t[1]) =>
            LET v == Pre.cpu[t[2]]
            IN  IF Is8Bit(Pre.cpu, t[3])
                THEN SameBytesAt(mmu, store_u8(Pre.mmu, ea[1], v % U8), ea[1])
                ELSE SameBytesAt(mmu, store_u16(Pre.mmu, ea[1], v).mmu, ea[1])

\* what the arms do: both bytes of the register are written in every mode
C18_AlwaysTwoBytes ==
    \A t \in StoreArms :
        (Stepped /\ ea # <<>> /\ OpcodeAt(Pre) = t[1]) =>
            mmu = store_u16(Pre.mmu, ea[1], Pre.cpu[t[2]]).mmu

\* emulation mode, A = 0x1234, STA $0010 over the bytes 0x71, 0x78: the byte
\* at 0x0011 becomes 0x12
C18_HighByteWrittenIn8BitMode ==
    /\ Stepped /\ OpcodeAt(Pre) = \h8D /\ Pre.cpu.emulation
    /\ ea = <<\h000010>> /\ Pre.cpu.a = \h1234
    /\ read_u8(Pre.mmu, \h000011) = \h78
    /\ read_u8(mmu, \h000010) = \h34
    /\ read_u8(mmu, \h000011) = \h12


(***************************************************************************)
(* Effective addresses.                                                    *)
(***************************************************************************)
\* LDA, STA, STZ absolute,X and LDA, STA, CMP long,X
AbsoluteIndexedOpcodes == {\hBD, \h9D, \h9E}
LongIndexedOpcodes     == {\hBF, \h9F, \hDF}

\* the last tick ran an arm that passed an address to the Mmu (the access
\* itself may have panicked)
Accessed == nticks >= 1 /\ ea # <<>>

\* the 16-bit operand of the instruction stepped, and the bank of its base
\* address: the third operand byte in the long form, the data bank otherwise
BaseOffset == OperandAt(Pre, 1) + 256 * OperandAt(Pre, 2)
BaseBank ==
    IF OpcodeAt(Pre) \in LongIndexedOpcodes THEN OperandAt(Pre, 3)
    ELSE Pre.cpu.data_bank

\* C19 as stated: an X-indexed access is made in the bank of its base
\* address, at the offset (base offset + X) mod 2^16: the sum never carries
\* into the bank.
C19_IndexedStaysInBank ==
    (Accessed /\ OpcodeAt(Pre) \in AbsoluteIndexedOpcodes \cup LongIndexedOpcodes) =>
        ea[1] = bank_addr(BaseBank, (BaseOffset + Pre.cpu.x) % U16)

\* C19, amended: for every X-indexed access (LDA/STA/STZ absolute,X and
\* LDA/STA/CMP long,X) the effective address is the 24-bit base address
\* (bank << 16 | base offset) plus X: when base offset + X passes 0xFFFF the
\* access is made in the next bank.
C19_IndexedCarriesIntoBank ==
    (Accessed /\ OpcodeAt(Pre) \in AbsoluteIndexedOpcodes \cup LongIndexedOpcodes) =>
        ea[1] = bank_addr(BaseBank, BaseOffset) + Pre.cpu.x

\* data bank 0x00, X = 2, LDA $FFFF,X: the byte is read at 0x010001
C19_AccessInNextBank ==
    /\ Accessed /\ OpcodeAt(Pre) = \hBD
    /\ Pre.cpu.data_bank = 0 /\ Pre.cpu.x = 2 /\ BaseOffset = \hFFFF
    /\ ea = <<\h010001>>

\* data bank 0x3F, X = 2, LDA $FFFF,X: the read is of bank 0x40 and panics
C19_AccessLeavesMappedBanks ==
    /\ Accessed /\ OpcodeAt(Pre) = \hBD
    /\ Pre.cpu.data_bank = \h3F /\ Pre.cpu.x = 2 /\ BaseOffset = \hFFFF
    /\ ea = <<\h400001>> /\ fault = FaultName(Unimplemented)


\* the dp forms of LDA, LDX, LDY, STA, STX, STY, STZ, ADC, CMP and INC, and
\* the dp,X forms of STA and STZ
DirectPageOpcodes        == {\hA5, \hA6, \hA4, \h85, \h86, \h84, \h64, \h65, \hC5, \hE6}
DirectPageIndexedOpcodes == {\h95, \h74}

\* D plus the operand byte, plus X in the indexed forms, as an integer
DirectPageSum ==
    Pre.cpu.direct_page + OperandAt(Pre, 1)
        + (IF OpcodeAt(Pre) \in DirectPageIndexedOpcodes THEN Pre.cpu.x ELSE 0)

\* C20: every direct-page access is made in bank 0, at the offset
\* (D + operand [+ X]) mod 2^16, never in bank 1 or above.
C20_DirectPageWrapsInBankZero ==
    (Accessed /\ OpcodeAt(Pre) \in DirectPageOpcodes \cup DirectPageIndexedOpcodes) =>
        \A i \in DOMAIN ea : ea[i] = DirectPageSum % U16

\* what the arms do: the sum is the address, in bank 0, 1 or 2
C20_DirectPageSumUnwrapped ==
    (Accessed /\ OpcodeAt(Pre) \in DirectPageOpcodes \cup DirectPageIndexedOpcodes) =>
        \A i \in DOMAIN ea : ea[i] = DirectPageSum

\* D = 0xFFFF, LDA $10: the byte is read at 0x01000F
C20_AccessInBankOne ==
    /\ Accessed /\ OpcodeAt(Pre) = \hA5
    /\ Pre.cpu.direct_page = \hFFFF /\ OperandAt(Pre, 1) = \h10
    /\ ea = <<\h01000F>>

\* D = 0xFFFF, X = 0x8001, STZ $FF,X: the store is to 0x0180FF, in the ROM
\* window of bank 1
C20_IndexedAccessInBankOne ==
    /\ Accessed /\ OpcodeAt(Pre) = \h74
    /\ Pre.cpu.direct_page = \hFFFF /\ Pre.cpu.x = \h8001 /\ OperandAt(Pre, 1) = \hFF
    /\ ea = <<\h0180FF>>

\* the loads see the same byte at the address used as at the wrapped one of
\* bank 0: below 0x8000 the banks 0x00..0x3F mirror one another
C20_LoadsSeeBankZeroBytes ==
    (Accessed /\ OpcodeAt(Pre) \in {\hA5, \hA6, \hA4, \h65, \hC5, \hE6}) =>
        read_u8(Pre.mmu, ea[1]) = read_u8(Pre.mmu, DirectPageSum % U16)


(***************************************************************************)
(* The sign bit of a result.                                               *)
(***************************************************************************)
\* each pull of a register, with the register and the flag of its width
\* (0: the width is fixed, 16 bits for D)
RegisterPulls ==
    {<<\h68, "a", MEMORY_SELECT>>, <<\hFA, "x", INDEX_REGISTER>>,
     <<\h7A, "y", INDEX_REGISTER>>, <<\h2B, "direct_page", 0>>}

\* Negative after the step is bit (width - 1) of result
NegativeIsSignOf(result, width) ==
    contains(cpu.status, NEGATIVE) <=> Bit(result, width - 1) = 1

\* the width at which the add-with-carry of the step is performed
AddWidth ==
    IF OpcodeAt(Pre) = \h69 THEN cpu.last_instruction.width
    ELSE IF Is8Bit(Pre.cpu, MEMORY_SELECT) THEN 8 ELSE 16

\* C21: after a load, a pull, a compare or an add-with-carry, Negative is
\* bit 15 of the result when the operation is performed at 16 bits and bit 7
\* when it is performed at 8 bits.
C21_NegativeFollowsWidth ==
    /\ \A t \in ImmediateLoads :
           (Stepped /\ OpcodeAt(Pre) = t[1]) =>
               NegativeIsSignOf(cpu[t[2]], cpu.last_instruction.width)
    /\ \A t \in RegisterPulls :
           (Stepped /\ OpcodeAt(Pre) = t[1]) =>
               NegativeIsSignOf(cpu[t[2]],
                   IF t[3] # 0 /\ Is8Bit(Pre.cpu, t[3]) THEN 8 ELSE 16)
    /\ (Stepped /\ OpcodeAt(Pre) = \hAB) => NegativeIsSignOf(cpu.data_bank, 8)
    /\ \A t \in ImmediateCompares :
           (Stepped /\ OpcodeAt(Pre) = t[1]) =>
               LET width == cpu.last_instruction.width
                   lhs   == Pre.cpu[t[2]] % Modulus(width)
                   rhs   == ImmediateAt(Pre, width)
               IN  NegativeIsSignOf((lhs - rhs + Modulus(width)) % Modulus(width), width)
    /\ (Stepped /\ OpcodeAt(Pre) \in AddOpcodes) =>
           NegativeIsSignOf(cpu.a % Modulus(AddWidth), AddWidth)

\* what holds: the same, but for the 16-bit add-with-carry, whose Negative
\* is bit 7 of the sum
C21_NegativeOfWideSumIsBit7 ==
    /\ \A t \in ImmediateLoads :
           (Stepped /\ OpcodeAt(Pre) = t[1]) =>
               NegativeIsSignOf(cpu[t[2]], cpu.last_instruction.width)
    /\ \A t \in RegisterPulls :
           (Stepped /\ OpcodeAt(Pre) = t[1]) =>
               NegativeIsSignOf(cpu[t[2]],
                   IF t[3] # 0 /\ Is8Bit(Pre.cpu, t[3]) THEN 8 ELSE 16)
    /\ (Stepped /\ OpcodeAt(Pre) = \hAB) => NegativeIsSignOf(cpu.data_bank, 8)
    /\ \A t \in ImmediateCompares :
           (Stepped /\ OpcodeAt(Pre) = t[1]) =>
               LET width == cpu.last_instruction.width
                   lhs   == Pre.cpu[t[2]] % Modulus(width)
                   rhs   == ImmediateAt(Pre, width)
               IN  NegativeIsSignOf((lhs - rhs + Modulus(width)) % Modulus(width), width)
    /\ (Stepped /\ OpcodeAt(Pre) \in AddOpcodes) => NegativeIsSignOf(cpu.a, 8)

\* native mode with MemorySelect clear, A = 0x8000, Carry clear, ADC #$0001:
\* the sum is 0x8001 and Negative is clear
C21_WideSumNegativeClear ==
    /\ Stepped /\ OpcodeAt(Pre) = \h69 /\ cpu.last_instruction.width = 16
    /\ Pre.cpu.a = \h8000 /\ ImmediateAt(Pre, 16) = \h0001
    /\ ~contains(Pre.cpu.status, CARRY)
    /\ cpu.a = \h8001
    /\ ~contains(cpu.status, NEGATIVE)


(***************************************************************************)
(* ShiftLeft.                                                              *)
(***************************************************************************)
\* C22: after a ShiftLeft step the low byte of A is (old low byte * 2) mod
\* 256, Carry is bit 7 of the old low byte, Negative is bit 7 of the result
\* and Zero is set iff the result is 0, whatever X and Y hold.
C22_ShiftLeftFlags ==
    (Stepped /\ OpcodeAt(Pre) = \h0A) =>
        LET original == Pre.cpu.a % U8
            value    == (original * 2) % U8
        IN  /\ cpu.a % U8 = value
            /\ contains(cpu.status, CARRY) <=> Bit(original, 7) = 1
            /\ contains(cpu.status, NEGATIVE) <=> Bit(value, 7) = 1
            /\ contains(cpu.status, ZERO) <=> value = 0

\* what the arm does: A, Carry and Negative as above, Zero set iff Y is 0
C22_ZeroFollowsY ==
    (Stepped /\ OpcodeAt(Pre) = \h0A) =>
        LET original == Pre.cpu.a % U8
            value    == (original * 2) % U8
        IN  /\ cpu.a = value
            /\ contains(cpu.status, CARRY) <=> Bit(original, 7) = 1
            /\ contains(cpu.status, NEGATIVE) <=> Bit(value, 7) = 1
            /\ contains(cpu.status, ZERO) <=> Pre.cpu.y = 0

\* A = 0x01, Y = 0, ASL: A becomes 0x02 and Zero is set
C22_ZeroSetOnNonZeroResult ==
    /\ Stepped /\ OpcodeAt(Pre) = \h0A
    /\ Pre.cpu.a = \h0001 /\ Pre.cpu.y = 0
    /\ cpu.a = \h0002
    /\ contains(cpu.status, ZERO)

\* A = 0x80, Y = 3, ASL: A becomes 0x00, Carry is set and Zero is clear
C22_ZeroClearOnZeroResult ==
    /\ Stepped /\ OpcodeAt(Pre) = \h0A
    /\ Pre.cpu.a = \h0080 /\ Pre.cpu.y = 3
    /\ cpu.a = 0 /\ contains(cpu.status, CARRY)
    /\ ~contains(cpu.status, ZERO)


(***************************************************************************)
(* Arithmetic on PC and SP at the ends of their range.                     *)
(***************************************************************************)
\* the bytes the push or the pull with this opcode moves SP by, for the
\* registers r
StackBytes(r, opcode) ==
    CASE opcode \in {\h48, \h68}             -> IF Is8Bit(r, MEMORY_SELECT) THEN 1 ELSE 2
      [] opcode \in {\hDA, \h5A, \hFA, \h7A} -> IF Is8Bit(r, INDEX_REGISTER) THEN 1 ELSE 2
      [] opcode \in {\h0B, \h2B, \hF4}       -> 2
      [] OTHER                               -> 1

\* the last tick fetched its opcode at PC = 0xFFFF
FetchEdge == nticks >= 1 /\ Pre.cpu.pc = \hFFFF /\ OpcodeAt(Pre) >= 0

\* the last tick was a JSR or a JSL whose operand ends the bank: PC is 0
\* after the fetch, and PC - 1 is pushed
CallEdge ==
    /\ nticks >= 1
    /\ \/ OpcodeAt(Pre) = \h20 /\ Pre.cpu.pc = \hFFFD
       \/ OpcodeAt(Pre) = \h22 /\ Pre.cpu.pc = \hFFFC

\* the last tick was a push that takes SP below 0x0000
PushEdge ==
    /\ nticks >= 1 /\ Pre.cpu.pc = \h8000
    /\ OpcodeAt(Pre) \in PushOpcodes
    /\ Pre.cpu.sp - StackBytes(Pre.cpu, OpcodeAt(Pre)) < 0

\* the last tick was a pull that takes SP above 0xFFFF
PullEdge ==
    /\ nticks >= 1 /\ Pre.cpu.pc \in {\h8000, \h8001, \h8003}
    /\ OpcodeAt(Pre) \in PullOpcodes
    /\ Pre.cpu.sp + StackBytes(Pre.cpu, OpcodeAt(Pre)) > \hFFFF

\* C23: no step traps on arithmetic: advancing PC past 0xFFFF in a fetch,
\* computing PC - 1 in JSR/JSL, moving SP below 0x0000 in a push or above
\* 0xFFFF in a pull wrap modulo 2^16 and the step completes normally.
C23_ArithmeticWraps ==
    /\ FetchEdge => fault # FaultName(Overflow)
    /\ CallEdge =>
           /\ fault = "none"
           /\ cpu.sp = (Pre.cpu.sp - (IF OpcodeAt(Pre) = \h20 THEN 2 ELSE 3)) % U16
    /\ PushEdge =>
           /\ fault = "none"
           /\ cpu.sp = (Pre.cpu.sp - StackBytes(Pre.cpu, OpcodeAt(Pre))) % U16
    /\ PullEdge =>
           /\ fault = "none"
           /\ cpu.sp = (Pre.cpu.sp + StackBytes(Pre.cpu, OpcodeAt(Pre))) % U16

\* SP + 2 = 0x10000 in a pull of a word: the word is read at `sp as u32 - 1`
\* with SP = 0
PullWordToZero ==
    PullEdge /\ Pre.cpu.sp = \hFFFE /\ StackBytes(Pre.cpu, OpcodeAt(Pre)) = 2

\* what holds in a build with overflow checks: each of these steps panics
\* with an arithmetic overflow
C23_TrapsWithOverflowChecks ==
    (overflow_checks /\ (FetchEdge \/ CallEdge \/ PushEdge \/ PullEdge)) =>
        fault = FaultName(Overflow)

\* what holds in a build without them: the steps wrap and return, but for
\* the pull of a word that ends with SP = 0, which reads bank 0xFF and panics
C23_WrapsWithoutOverflowChecks ==
    ~overflow_checks =>
        /\ FetchEdge => fault # FaultName(Overflow)
        /\ CallEdge =>
               /\ fault = "none"
               /\ cpu.sp = (Pre.cpu.sp - (IF OpcodeAt(Pre) = \h20 THEN 2 ELSE 3)) % U16
        /\ PushEdge =>
               /\ fault = "none"
               /\ cpu.sp = (Pre.cpu.sp - StackBytes(Pre.cpu, OpcodeAt(Pre))) % U16
        /\ PullEdge =>
               IF PullWordToZero THEN fault = FaultName(Unimplemented)
               ELSE /\ fault = "none"
                    /\ cpu.sp = (Pre.cpu.sp + StackBytes(Pre.cpu, OpcodeAt(Pre))) % U16

\* with overflow checks, the opcode fetch at PC = 0xFFFF panics
C23_FetchTraps ==
    /\ FetchEdge /\ overflow_checks /\ nticks = 1
    /\ fault = FaultName(Overflow)

\* with overflow checks, PHA at SP = 0x0000 and PLA at SP = 0xFFFF panic
C23_PushTraps ==
    /\ PushEdge /\ OpcodeAt(Pre) = \h48 /\ Pre.cpu.sp = 0
    /\ fault = FaultName(Overflow)

C23_PullTraps ==
    /\ PullEdge /\ OpcodeAt(Pre) = \h68 /\ Pre.cpu.sp = \hFFFF
    /\ fault = FaultName(Overflow)

\* with overflow checks, JSR at PC = 0xFFFD panics
C23_CallTraps ==
    /\ CallEdge /\ OpcodeAt(Pre) = \h20
    /\ fault = FaultName(Overflow)

\* without overflow checks, a 16-bit PLA at SP = 0xFFFE panics on the read
C23_PullReadsUnmappedBank ==
    /\ PullWordToZero /\ ~overflow_checks /\ OpcodeAt(Pre) = \h68
    /\ fault = FaultName(Unimplemented)


(***************************************************************************)
(* The block move, iteration by iteration.                                 *)
(***************************************************************************)
\* the banks Mmu::read_u8 has an arm for
ImplementedBanks == (\h00 .. \h3F) \cup {\h7E}

\* the tick of the block move has ended, by returning or by a panic
BlockMoveEnded == tickat.pc \in {"returned", "panicked"}

\* C24: for every A, X, Y and bank operands the BlockMoveNext loop, once
\* entered, ends within the step, after at most 65536 iterations: after
\* (A + 1) mod 2^16 of them, with A = 0xFFFF, and by a panic only on a read
\* of a bank that is not implemented.
C24_BlockMoveTerminates ==
    /\ [](moved <= 65536)
    /\ [](tickat.pc = "returned" =>
              cpu.a = \hFFFF /\ moved = (Pre.cpu.a + 1) % U16)
    /\ [](tickat.pc = "panicked" => tickat.inst.arg2 \notin ImplementedBanks)
    /\ (tickat.pc = "while") ~> BlockMoveEnded

\* A = 0xFFFE: the loop has run 65535 times and the tick has returned
C24_Witness ==
    /\ tickat.pc = "returned"
    /\ Pre.cpu.a = \hFFFE
    /\ moved = 65535
    /\ Pre.cpu.x = 0 /\ cpu.x = \hFFFF
    /\ Pre.cpu.y = \h8000 /\ cpu.y = \h7FFF

\* run iteration by iteration, the tick ends as the tick run in one step
C24_SameAsTick ==
    (BlockMoveEnded /\ Pre.cpu.a \in (0 .. MaxCount) \cup {\hFFFF}) =>
        LET c == tick(Ctx(Pre.cpu, Pre.mmu))
        IN  /\ fault = c.fault
            /\ fault = "none" => cpu = c.cpu /\ mmu = c.mmu /\ moved = c.moved


(***************************************************************************)
(* The carry out of add-with-carry.                                        *)
(***************************************************************************)
\* the operand of the add-with-carry of the step, and the carry it started with
AddOperand ==
    IF OpcodeAt(Pre) = \h69 THEN ImmediateAt(Pre, AddWidth)
    ELSE OperandOfWidth(AddWidth, ea[1])
CarryIn == IF contains(Pre.cpu.status, CARRY) THEN 1 ELSE 0

\* C25: after an add-with-carry at width w, Carry is set iff
\* A + operand + Carry-in, computed without wrapping, exceeds 2^w - 1.
C25_CarryIsUnsignedOverflow ==
    (Stepped /\ OpcodeAt(Pre) \in AddOpcodes) =>
        (contains(cpu.status, CARRY) <=>
            (Pre.cpu.a % Modulus(AddWidth)) + AddOperand + CarryIn > Modulus(AddWidth) - 1)

\* what holds: Carry is the unsigned overflow of the sum, except that with
\* Carry-in 1 and the operand 2^w - 1 the sum wraps back to A and Carry is
\* left clear
C25_CarryMissedOnWrapToSelf ==
    (Stepped /\ OpcodeAt(Pre) \in AddOpcodes) =>
        IF CarryIn = 1 /\ AddOperand = Modulus(AddWidth) - 1
        THEN /\ ~contains(cpu.status, CARRY)
             /\ cpu.a % Modulus(AddWidth) = Pre.cpu.a % Modulus(AddWidth)
        ELSE contains(cpu.status, CARRY) <=>
                 (Pre.cpu.a % Modulus(AddWidth)) + AddOperand + CarryIn
                     > Modulus(AddWidth) - 1

\* 8 bits, A = 0x01, Carry set, ADC #$FF: the sum is 0x101, A stays 0x01 and
\* Carry is clear
C25_CarryLostAt8Bits ==
    /\ Stepped /\ OpcodeAt(Pre) = \h69 /\ AddWidth = 8
    /\ Pre.cpu.a = \h0001 /\ AddOperand = \hFF /\ CarryIn = 1
    /\ cpu.a = \h0001
    /\ ~contains(cpu.status, CARRY)

\* 16 bits, A = 0x1234, Carry set, ADC #$FFFF: A stays 0x1234, Carry is clear
C25_CarryLostAt16Bits ==
    /\ Stepped /\ OpcodeAt(Pre) = \h69 /\ AddWidth = 16
    /\ Pre.cpu.a = \h1234 /\ AddOperand = \hFFFF /\ CarryIn = 1
    /\ cpu.a = \h1234
    /\ ~contains(cpu.status, CARRY)


(***************************************************************************)
(* C26                                                                     *)
(***************************************************************************)
ScratchAddr(addr) == BankOf(addr) <= \h3F /\ OffsetOf(addr) \in \h2140 .. \h2143
RamAddr(addr) ==
    \/ BankOf(addr) <= \h3F /\ OffsetOf(addr) <= \h1FFF
    \/ BankOf(addr) = \h7E
Writable(addr) == RamAddr(addr) \/ ScratchAddr(addr)

\* C26: a store_u8 to an address that is neither RAM nor a scratch register
\* (a placeholder offset, the ROM window, a bank that is not implemented)
\* returns and leaves RAM, scratch registers and cartridge as they were; and
\* the cartridge is, in every state, the cartridge the Mmu was built with.
C26_NonWritableStoreIsNoOp ==
    /\ (call.fn = "store_u8" /\ ~Writable(call.addr))
         => fault = "none" /\ mmu = Pre.mmu
    /\ trace # <<>> => mmu.cartridge = trace[1].mmu.cartridge

\* a store to the ROM window after a store that changed the RAM
C26_StoreToRomAfterRamStore ==
    /\ call.fn = "store_u8" /\ call.addr = \h008000 /\ call.value = \h22
    /\ Len(trace) = 2
    /\ Pre.call.fn = "store_u8" /\ Pre.call.addr = \h001FFF
    /\ RamAt(mmu.ram, \h1FFF) = Pre.call.value

(***************************************************************************)
(* C27                                                                     *)
(***************************************************************************)
\* the first and the last offset of each placeholder window of read_u8
PlaceholderOffsets ==
    {\h2000, \h20FF, \h2100, \h213F, \h2144, \h21FF, \h2200, \h2FFF, \h3000, \h3FFF,
     \h4000, \h40FF, \h4100, \h41FF, \h4200, \h44FF, \h4500, \h5FFF, \h6000, \h7FFF}

LowBanks == {\h00, \h01, \h3F}

\* the stores made so far to scratch register k, by their place in `stores`
ScratchStores(k) ==
    {i \in 1 .. Len(stores) :
        ScratchAddr(stores[i][1]) /\ OffsetOf(stores[i][1]) = \h2140 + k}

ScratchValue(k) ==
    IF ScratchStores(k) = {} THEN <<\hAA, \hBB, \h00, \h00>>[k + 1]
    ELSE stores[CHOOSE i \in ScratchStores(k) : \A j \in ScratchStores(k) : j <= i][2]

\* C27: through each of the banks 0x00..0x3F a read of offset 0x2140 + k
\* returns the value last stored to that offset through any of these banks,
\* and 0xAA, 0xBB, 0, 0 before any store; a read of another offset of
\* 0x2000..0x7FFF returns 0 whatever was stored.
C27_ScratchAndPlaceholders ==
    /\ \A bank \in LowBanks, k \in 0 .. 3 :
         read_u8(mmu, bank * 65536 + \h2140 + k) = ScratchValue(k)
    /\ \A bank \in LowBanks, offset \in PlaceholderOffsets :
         read_u8(mmu, bank * 65536 + offset) = 0
    /\ (call.fn = "read_u8" /\ ScratchAddr(call.addr))
         => fault = "none" /\ ret = ScratchValue(OffsetOf(call.addr) - \h2140)
    /\ (call.fn = "read_u8" /\ BankOf(call.addr) <= \h3F
        /\ OffsetOf(call.addr) \in \h2000 .. \h7FFF /\ ~ScratchAddr(call.addr))
         => fault = "none" /\ ret = 0

\* a scratch register read through one bank after a store through another
C27_ReadThroughOtherBank ==
    /\ call.fn = "read_u8" /\ call.addr = \h3F2140 /\ ret = \h22
    /\ Len(trace) = 2
    /\ Pre.call.fn = "store_u8" /\ Pre.call.addr = \h002140

\* a scratch register read before any store
C27_InitialScratch ==
    /\ call.fn = "read_u8" /\ call.addr = \h012141 /\ ret = \hBB /\ stores = <<>>

\* a placeholder read after a store to it
C27_PlaceholderAfterStore ==
    /\ call.fn = "read_u8" /\ call.addr = \h002144 /\ ret = 0
    /\ Len(trace) = 2
    /\ Pre.call.fn = "store_u8" /\ Pre.call.addr = \h002144 /\ Pre.call.value = \h11

(***************************************************************************)
(* C28                                                                     *)
(***************************************************************************)
\* the bytes of a word or long word at addr, read one by one
ByteReads(m, addr, n) == [i \in 1 .. n |-> read_u8(m, addr + i - 1)]
AllRead(bytes) == \A i \in DOMAIN bytes : bytes[i] >= 0

\* C28: read_u16 and read_long return the bytes at a, a + 1 (and a + 2) with
\* the byte at a lowest and the top byte of a long word 0; store_u16 stores
\* the low byte at a and the high byte at a + 1; so a read_u16 of a right
\* after a store_u16 of v to a returns v when a and a + 1 are RAM or scratch
\* registers.
C28_LittleEndian ==
    /\ call.fn = "read_u16" =>
         LET bytes == ByteReads(mmu, call.addr, 2)
         IN  IF AllRead(bytes)
             THEN fault = "none" /\ ret = bytes[1] + 256 * bytes[2]
             ELSE fault # "none"
    /\ call.fn = "read_long" =>
         LET bytes == ByteReads(mmu, call.addr, 3)
         IN  IF AllRead(bytes)
             THEN /\ fault = "none"
                  /\ ret = bytes[1] + 256 * bytes[2] + 65536 * bytes[3]
                  /\ ret \div 16777216 = 0
             ELSE fault # "none"
    /\ call.fn = "store_u16" =>
         /\ fault = "none"
         /\ mmu = store_u8(store_u8(Pre.mmu, call.addr, call.value % 256),
                           call.addr + 1, call.value \div 256)
    /\ (/\ call.fn = "read_u16" /\ Len(trace) >= 2
        /\ Pre.call.fn = "store_u16" /\ Pre.call.addr = call.addr
        /\ Writable(call.addr) /\ Writable(call.addr + 1))
         => fault = "none" /\ ret = Pre.call.value

\* a word with two different bytes read back from the scratch registers
C28_RoundTripInScratch ==
    /\ call.fn = "read_u16" /\ call.addr = \h002140 /\ ret = \h2211
    /\ Len(trace) = 2
    /\ Pre.call.fn = "store_u16" /\ Pre.call.addr = \h002140 /\ Pre.call.value = \h2211

\* a long word read across the end of the RAM window: its third byte is a
\* placeholder
C28_LongAcrossRam ==
    /\ call.fn = "read_long" /\ call.addr = \h001FFF /\ ret = \h000011
    /\ Pre.call.fn = "store_u16" /\ Pre.call.addr = \h001FFF /\ Pre.call.value = \h2211

\* the word is not read back when its high byte went to a placeholder
C28_NoRoundTripAcrossRam ==
    /\ call.fn = "read_u16" /\ call.addr = \h001FFF /\ ret = \h0011
    /\ Pre.call.fn = "store_u16" /\ Pre.call.addr = \h001FFF /\ Pre.call.value = \h2211


(***************************************************************************)
(* C29                                                                     *)
(***************************************************************************)
\* the arms that call push_u16 and pull_u16 when the register is 16 bits wide
WordPushOpcodes == {\h48, \hDA, \h5A, \h0B, \hF4}
WordPullOpcodes == {\h68, \hFA, \h7A, \h2B}

\* the word the arm pushes, from the machine before the tick
PushedWord(st, opcode) ==
    CASE opcode = \h48 -> st.cpu.a
      [] opcode = \hDA -> st.cpu.x
      [] opcode = \h5A -> st.cpu.y
      [] opcode = \h0B -> st.cpu.direct_page
      [] opcode = \hF4 -> OperandAt(st, 1) + 256 * OperandAt(st, 2)

\* the register the arm loads with the word it pulled
PulledWord(r, opcode) ==
    CASE opcode = \h68 -> r.a
      [] opcode = \hFA -> r.x
      [] opcode = \h7A -> r.y
      [] opcode = \h2B -> r.direct_page

\* the fetch of the last tick returned: the instruction is not at the end of
\* its bank, where PC + 1..3 overflows
FetchReturned == nticks >= 1 /\ Pre.cpu.pc <= \hFFFC

\* the last tick pushed a word, the two bytes it stored being in RAM
PushedWordInRam ==
    /\ FetchReturned
    /\ OpcodeAt(Pre) \in WordPushOpcodes /\ StackBytes(Pre.cpu, OpcodeAt(Pre)) = 2
    /\ Pre.cpu.sp \in 1 .. \h1FFF

\* the last tick pulled a word, the two bytes it read being in RAM
PulledWordInRam ==
    /\ FetchReturned
    /\ OpcodeAt(Pre) \in WordPullOpcodes /\ StackBytes(Pre.cpu, OpcodeAt(Pre)) = 2
    /\ Pre.cpu.sp \in 0 .. \h1FFD

\* the high byte pushed, then the low byte; the low byte pulled, then the
\* high byte
TwoPushes(st, v) == push_u8(push_u8(Ctx(st.cpu, st.mmu), v \div 256), v % 256)
FirstPull(st)    == pull_u8(Ctx(st.cpu, st.mmu))
SecondPull(st)   == pull_u8(FirstPull(st))

C29_BothPanicAtOne ==
    /\ PushedWordInRam /\ Pre.cpu.sp = 1 /\ fault = "arithmetic overflow"

\* outside the RAM the two differ: at SP = 0xFFFE, without overflow checks,
\* pull_u16 reads its low byte at 0xFFFFFFFF, in a bank that is not
\* implemented, where two pull_u8 read 0x00FFFF and 0x000000
C29_PullDiffersOutsideRam ==
    /\ nticks >= 1 /\ ~overflow_checks
    /\ OpcodeAt(Pre) \in WordPullOpcodes /\ StackBytes(Pre.cpu, OpcodeAt(Pre)) = 2
    /\ Pre.cpu.sp = \hFFFE
    /\ fault = "unimplemented" /\ SecondPull(Pre).fault = "none"


(***************************************************************************)
(* C30                                                                     *)
(***************************************************************************)
\* the machine after the i-th tick of the run
After(i) == IF i < Len(trace) THEN trace[i + 1] ELSE [cpu |-> cpu, mmu |-> mmu]

\* the i-th tick returned
TickReturned(i) == i < Len(trace) \/ fault = "none"

\* the i-th tick is an XCE made with Carry clear
LeavesEmulation(i) ==
    OpcodeAt(trace[i]) = \hFB /\ ~contains(trace[i].cpu.status, CARRY)

\* the width of the immediate the i-th tick decoded, 0 if it decoded none
ImmediateWidth(i) ==
    IF \E e \in ImmediateOpcodes : e[1] = OpcodeAt(trace[i])
    THEN After(i).cpu.last_instruction.width
    ELSE 0

\* the flag that gives the width of the immediate of the i-th tick
WidthFlag(i) ==
    (CHOOSE e \in ImmediateOpcodes : e[1] = OpcodeAt(trace[i]))[3]

\* C30: in a run of main, a tick of another instruction than XCE leaves the
\* emulation flag as it was, and a tick of XCE sets it to the Carry it found;
\* so the flag is set, and every immediate decoded is 8 bits wide, as long as
\* no XCE was made with Carry clear, and the immediate of a tick made in
\* native mode, the tick right after that XCE being the first, is 8 bits wide
\* if the MemorySelect / IndexRegisterWidth flag is set and 16 if not.
C30_EmulationChangesInExchangeCE ==
    /\ \A i \in 1 .. Len(trace) :
         /\ OpcodeAt(trace[i]) # \hFB
              => After(i).cpu.emulation = trace[i].cpu.emulation
         /\ (OpcodeAt(trace[i]) = \hFB /\ TickReturned(i))
              => After(i).cpu.emulation = contains(trace[i].cpu.status, CARRY)
         /\ (ImmediateWidth(i) # 0 /\ TickReturned(i))
              => ImmediateWidth(i) =
                   IF trace[i].cpu.emulation \/ contains(trace[i].cpu.status, WidthFlag(i))
                   THEN 8 ELSE 16
         /\ (LeavesEmulation(i) /\ i < Len(trace)) => ~trace[i + 1].cpu.emulation
    /\ trace = <<>> => cpu.emulation
    /\ (\A i \in 1 .. Len(trace) : ~LeavesEmulation(i)) =>
         /\ cpu.emulation
         /\ \A i \in 1 .. Len(trace) : TickReturned(i) => ImmediateWidth(i) \in {0, 8}

\* XCE from the initial state, then LDA # decoded with 16 bits
C30_WideAfterExchangeCE ==
    /\ Len(trace) = 2 /\ fault = "none"
    /\ trace[1].cpu = set_current_addr(CpuNew, \h8000)
    /\ LeavesEmulation(1)
    /\ ~trace[2].cpu.emulation /\ OpcodeAt(trace[2]) = \hA9 /\ ImmediateWidth(2) = 16

\* LDA # decoded with 8 bits from the initial state, then XCE
C30_NarrowBeforeExchangeCE ==
    /\ Len(trace) = 2 /\ fault = "none"
    /\ trace[1].cpu.emulation /\ OpcodeAt(trace[1]) = \hA9 /\ ImmediateWidth(1) = 8
    /\ LeavesEmulation(2) /\ ~cpu.emulation

\* a second XCE finds the Carry the first one set and goes back to emulation
\* mode: the immediate after it is 8 bits wide again
C30_BackInEmulation ==
    /\ Len(trace) = 3 /\ fault = "none"
    /\ LeavesEmulation(1) /\ OpcodeAt(trace[2]) = \hFB
    /\ trace[3].cpu.emulation /\ ImmediateWidth(3) = 8


\* the same of a tick of each of the 256 opcodes, made in either mode
C30_EveryOpcodeKeepsEmulation ==
    (nticks >= 1 /\ OpcodeAt(Pre) # \hFB) => cpu.emulation = Pre.cpu.emulation

\* a tick in native mode of an instruction that writes the status
C30_NativeKeptByResetFlags ==
    /\ Stepped /\ OpcodeAt(Pre) = \hC2 /\ ~Pre.cpu.emulation /\ ~cpu.emulation


(***************************************************************************)
(* C31                                                                     *)
(***************************************************************************)
\* JSL and RTL
LongCallOpcodes == {\h22, \h6B}

\* C31: a tick of another instruction than JSL and RTL leaves the program
\* bank as it was, wherever PC is: neither the fetch of an instruction that
\* ends at or passes 0xFFFF, nor a branch, JMP, JSR or RTS changes it.
C31_ProgramBankChangesInLongCalls ==
    (nticks >= 1 /\ OpcodeAt(Pre) \notin LongCallOpcodes)
        => cpu.program_bank = Pre.cpu.program_bank

\* JSR fetched at 0x01FFFF, without overflow checks: PC wraps to 0x0000 for
\* the operand, and the call is made inside bank 0x01
C31_CallAcrossEndOfBank ==
    /\ Stepped /\ ~overflow_checks
    /\ OpcodeAt(Pre) = \h20 /\ Pre.cpu.program_bank = \h01 /\ Pre.cpu.pc = \hFFFF
    /\ cpu.program_bank = \h01

\* a branch taken forwards from the end of bank 0x01, without overflow
\* checks: PC wraps to the start of the bank
C31_BranchAcrossEndOfBank ==
    /\ Stepped /\ OpcodeAt(Pre) = \h80 /\ OperandAt(Pre, 1) = \h7F
    /\ Pre.cpu.program_bank = \h01 /\ Pre.cpu.pc = \hFFFD
    /\ cpu.program_bank = \h01 /\ cpu.pc = \h007E

\* JSL does change it
C31_LongCallChangesBank ==
    /\ Stepped /\ OpcodeAt(Pre) = \h22 /\ Pre.cpu.program_bank = \h00
    /\ cpu.program_bank = \h01


(***************************************************************************)
(* C32                                                                     *)
(***************************************************************************)
\* bit k of the byte v is set
HasBit(v, k) == (v \div (2 ^ k)) % 2 = 1

\* the registers but PC and the status, and the memory, are as before the tick
OnlyStatusAndPcChanged ==
    /\ cpu.a = Pre.cpu.a /\ cpu.x = Pre.cpu.x /\ cpu.y = Pre.cpu.y
    /\ cpu.sp = Pre.cpu.sp /\ cpu.direct_page = Pre.cpu.direct_page
    /\ cpu.program_bank = Pre.cpu.program_bank /\ cpu.data_bank = Pre.cpu.data_bank
    /\ cpu.emulation = Pre.cpu.emulation
    /\ mmu = Pre.mmu

\* C32: in emulation and in native mode, a tick of SEP #m from status s
\* leaves each bit of the status set iff it was set in s or is set in m, a
\* tick of REP #m leaves it set iff it was set in s and is not set in m, and
\* both leave A, X, Y, SP, D, the two banks, the emulation flag and the
\* memory as they were.
C32_FlagMasks ==
    /\ (nticks >= 1 /\ OpcodeAt(Pre) = \hE2) =>
         /\ fault = "none"
         /\ \A k \in 0 .. 7 :
              HasBit(cpu.status, k) <=>
                  (HasBit(Pre.cpu.status, k) \/ HasBit(OperandAt(Pre, 1), k))
         /\ cpu.status \in 0 .. 255
         /\ OnlyStatusAndPcChanged
    /\ (nticks >= 1 /\ OpcodeAt(Pre) = \hC2) =>
         /\ fault = "none"
         /\ \A k \in 0 .. 7 :
              HasBit(cpu.status, k) <=>
                  (HasBit(Pre.cpu.status, k) /\ ~HasBit(OperandAt(Pre, 1), k))
         /\ cpu.status \in 0 .. 255
         /\ OnlyStatusAndPcChanged

\* REP #$30 in emulation mode clears both width bits
C32_WidthBitsClearedInEmulation ==
    /\ Stepped /\ OpcodeAt(Pre) = \hC2 /\ OperandAt(Pre, 1) = \h30
    /\ Pre.cpu.emulation /\ Pre.cpu.status = \hFF
    /\ cpu.status = \hCF /\ cpu.a = \h1234 /\ cpu.data_bank = \h7E

\* SEP #$55 over 0xAA in native mode
C32_SetOverDisjointBits ==
    /\ Stepped /\ OpcodeAt(Pre) = \hE2 /\ OperandAt(Pre, 1) = \h55
    /\ ~Pre.cpu.emulation /\ Pre.cpu.status = \hAA
    /\ cpu.status = \hFF


(***************************************************************************)
(* C33                                                                     *)
(***************************************************************************)
\* C33 as stated: in every state Break is set iff MemorySelect is set, and
\* IndexRegisterWidth is another bit than Break and than MemorySelect.
C33_BreakIsMemorySelect ==
    /\ contains(cpu.status, BREAK_FLAG) <=> contains(cpu.status, MEMORY_SELECT)
    /\ INDEX_REGISTER # BREAK_FLAG
    /\ INDEX_REGISTER # MEMORY_SELECT

\* C33, amended: in every state Break is set iff IndexRegisterWidth is set,
\* the two being one bit, 0x10; MemorySelect is another bit, 0x20, the one
\* of Unused, and is set and cleared apart from Break.
C33_BreakIsIndexRegister ==
    /\ contains(cpu.status, BREAK_FLAG) <=> contains(cpu.status, INDEX_REGISTER)
    /\ contains(cpu.status, MEMORY_SELECT) <=> contains(cpu.status, UNUSED)
    /\ \A k \in 0 .. 7 :
         /\ HasBit(BREAK_FLAG, k) <=> HasBit(INDEX_REGISTER, k)
         /\ ~(HasBit(BREAK_FLAG, k) /\ HasBit(MEMORY_SELECT, k))
    /\ (Stepped /\ OpcodeAt(Pre) \in {\hC2, \hE2} /\ OperandAt(Pre, 1) = INDEX_REGISTER)
         => /\ contains(cpu.status, BREAK_FLAG) <=> OpcodeAt(Pre) = \hE2
            /\ contains(cpu.status, MEMORY_SELECT)
                   <=> contains(Pre.cpu.status, MEMORY_SELECT)

\* SEP #$10 over a status with both width bits clear: Break is set,
\* MemorySelect is not
C33_BreakSetMemorySelectClear ==
    /\ Stepped /\ OpcodeAt(Pre) = \hE2 /\ OperandAt(Pre, 1) = INDEX_REGISTER
    /\ ~contains(Pre.cpu.status, BREAK_FLAG) /\ ~contains(Pre.cpu.status, MEMORY_SELECT)
    /\ contains(cpu.status, BREAK_FLAG) /\ ~contains(cpu.status, MEMORY_SELECT)

====
